---- MODULE Spec2Model ----
(***************************************************************************)
(* The agentic answering pipeline of POST /ask/stream                      *)
(* (src/src/routes/ask-stream.ts): one admitted request, from the point    *)
(* where the SSE headers are written to the point where the response      *)
(* stream is ended.  Every await of the handler is one step; the outcomes  *)
(* of the collaborators (store, router, rewriter, LLM, embedding, search)  *)
(* are chosen nondeterministically.                                        *)
(*                                                                         *)
(* Text is a sequence of characters, so that "length" and concatenation    *)
(* are the ones of the code.                                               *)
(***************************************************************************)
EXTENDS Integers, Sequences, FiniteSets, TLC

\* ------------------------------------------------------------- bounds
\* Stored messages of a supplied conversation before this request.
MaxPrior == 0
\* Largest number of expansion queries the retrieval planner asks for.
MaxExpansion == 1
\* Largest chunk count the retrieval planner asks for.
MaxChunkCount == 2
\* Deltas the provider streams in one generation attempt.
MaxDeltas == 2
\* Pieces an answer text handed to extractCitations is assembled from.
MaxPieces == 3
\* Sources handed to extractCitations.
MaxSources == 2

\* -------------------------------------------------- program constants
MAX_ANSWER_RETRIES == 1
maxAttempts == 2
MinGradedLength == 50
HistoryLimit == 10
SnippetLength == 200

\* ------------------------------------------------------------- values
Undefined == "undefined"
Null == "null"
EmptyText == << >>
\* An optional text: absent, or present with a value (possibly the empty text).
None == << >>
Some(v) == <<v>>
\* JavaScript truthiness of an optional string.
Truthy(opt) == opt # None /\ opt[1] # EmptyText

Query == <<"q">>
RewrittenQuery == <<"q", "2">>
Variant == <<"v">>

PrimaryModel == "primary"
\* env.OPENROUTER_FALLBACK_CHAT_MODEL: empty, the primary again, or distinct.
FallbackModels == {"", "primary", "fallback"}

Intents == {"lookup", "comparison", "summarization", "analytical", "follow_up", "chit_chat"}

NoSourcesResponse == <<"I couldn't find any relevant information in your saved sources.">>
NoRelevantResponse == <<"I found some sources, but none of them appear to be relevant to your question. Could you try rephrasing or asking about a different topic?">>
Greeting == <<"H", "i", "!">>

Min(a, b) == IF a < b THEN a ELSE b
Range(s) == {s[k] : k \in 1..Len(s)}

VARIABLES
    pc,                  \* position of the handler
    body,                \* the parsed request body
    fallbackModel,       \* env.OPENROUTER_FALLBACK_CHAT_MODEL
    connected,           \* the caller still holds the connection
    pieces,              \* the pieces an answer text was assembled from
    returned,            \* what hybrid_search returns for each query variant
    messages,            \* the rows of the conversation in the messages table
    trace,               \* events written, collaborator calls made, end() calls
    conversationId,
    conversationHistory,
    routerResult,
    retrievalParams,
    effectiveQuery,
    searchQueries,
    i,                   \* loop index of multiQuerySearch
    allResults,          \* the Map of multiQuerySearch, in insertion order
    chunks,
    cragResult,
    sources,
    answer,
    model,
    retryCount,
    attempt,             \* streamChatCompletion: attempt
    currentModel,        \* streamChatCompletion: currentModel
    fullAnswer,          \* streamChatCompletion: fullAnswer
    deltasRead,          \* deltas read in the current attempt
    attempts,            \* the generation requests sent to the provider
    citations,
    assistantMessage     \* the row returned by the assistant-message insert

vars == <<pc, body, fallbackModel, connected, pieces, returned, messages, trace, conversationId,
          conversationHistory, routerResult, retrievalParams, effectiveQuery,
          searchQueries, i, allResults, chunks, cragResult, sources, answer,
          model, retryCount, attempt, currentModel, fullAnswer, deltasRead,
          attempts, citations, assistantMessage>>

\* What the handler never writes.
config == <<body, fallbackModel, connected, pieces, returned>>
routing == <<conversationId, conversationHistory, routerResult, retrievalParams,
             effectiveQuery>>
retrieval == <<searchQueries, i, allResults, chunks, cragResult, sources>>
generator == <<attempt, currentModel, fullAnswer, deltasRead, attempts>>
generation == <<answer, model, retryCount, generator, citations, assistantMessage>>

\* -------------------------------------------------------------- trace
Ev(type, payload) == [kind |-> "event", type |-> type, payload |-> payload]
Call(op, payload) == [kind |-> "call", type |-> op, payload |-> payload]
EndCall == [kind |-> "end", type |-> "end", payload |-> << >>]

\* formatSSE + reply.raw.write
sendEvent(t, type, payload) == Append(t, Ev(type, payload))

\* Lines 748-750: the finally block ends the response stream.
Finally(t) == Append(t, EndCall)

\* Fault: the catch block swallows the exception without an error event.
CatchSilent(t) == Finally(t)

\* Lines 745-750: an exception in the try block; the catch block sends the
\* error event and the finally block runs.
Catch(t) == Finally(sendEvent(t, "error", "Failed to generate response"))

\* Fault: the return after reply.raw.end() is missing; the handler runs on
\* against the ended stream and fails.
EndWithoutReturn(t) == Catch(Append(t, EndCall))

\* reply.raw.end(); return; inside the try block: the finally block runs too.
EndAndReturn(t) == Finally(Append(t, EndCall))

\* Fault: the message rows are kept in one slot for each role that the
\* requests share; a row replaces the row of the same role written last.
InsertMessageLastWins(rows, role, content, ok) ==
    IF ~ok THEN rows
    ELSE IF rows # << >> /\ rows[Len(rows)].role = role
         THEN [rows EXCEPT ![Len(rows)] = [role |-> role, content |-> content]]
         ELSE Append(rows, [role |-> role, content |-> content])

\* user.from('messages').insert(...): the row is stored unless the store
\* answers with an error result; the handler never looks at the result.
InsertMessage(rows, role, content, ok) ==
    IF ok THEN Append(rows, [role |-> role, content |-> content]) ELSE rows

InsertCall(role, content, ok) ==
    Call("insert_message", [role |-> role, content |-> content, ok |-> ok])

\* Lines 641-648: streamChatCompletion(sources, effectiveQuery, ...).
GeneratorCall(srcs, userMessage) ==
    Call("streamChatCompletion", [sources |-> srcs, userMessage |-> userMessage])

\* The stored conversation before the request: alternating user/assistant.
PriorMessages(n) ==
    [k \in 1..n |-> [role |-> IF k % 2 = 1 THEN "user" ELSE "assistant",
                     content |-> <<"m">>]]

Init ==
    /\ pc = "start"
    /\ \E conv \in {Undefined, "c1"} :
         /\ body = [conversation_id |-> conv, query |-> Query]
         /\ \E n \in 0..MaxPrior :
              /\ conv = Undefined => n = 0
              /\ messages = PriorMessages(n)
    /\ fallbackModel \in FallbackModels
    /\ connected = TRUE
    /\ pieces = << >>
    /\ returned = << >>
    /\ trace = << >>
    /\ conversationId = Undefined
    /\ conversationHistory = << >>
    /\ routerResult = [intent |-> "", skipRetrieval |-> FALSE, suggestedResponse |-> None]
    /\ retrievalParams = [chunkCount |-> 0, expansionQueries |-> 0]
    /\ effectiveQuery = Query
    /\ searchQueries = << >>
    /\ i = 0
    /\ allResults = << >>
    /\ chunks = << >>
    /\ cragResult = [decision |-> "", relevantChunks |-> << >>]
    /\ sources = << >>
    /\ answer = EmptyText
    /\ model = ""
    /\ retryCount = 0
    /\ attempt = 0
    /\ currentModel = ""
    /\ fullAnswer = EmptyText
    /\ deltasRead = 0
    /\ attempts = << >>
    /\ citations = << >>
    /\ assistantMessage = Undefined

\* ------------------------------------------- conversation and question
\* Fault: convError is not tested.
CreateConversationUnchecked ==
    /\ pc = "start"
    /\ body.conversation_id = Undefined
    /\ \E convError \in BOOLEAN :
         /\ trace' = Append(trace, Call("insert_conversation",
                                        IF convError THEN "error" ELSE "ok"))
         /\ conversationId' = IF convError THEN Undefined ELSE "c_new"
    /\ pc' = "save_user"
    /\ UNCHANGED <<config, messages, conversationHistory, routerResult,
                   retrievalParams, effectiveQuery, retrieval, generation>>

\* Lines 380-400: no conversation_id supplied, the conversation is created.
CreateConversation ==
    /\ pc = "start"
    /\ body.conversation_id = Undefined
    /\ \E convError \in BOOLEAN :
         IF convError
         THEN /\ trace' = EndAndReturn(sendEvent(Append(trace, Call("insert_conversation", "error")),
                                                 "error", "Failed to create conversation"))
              /\ pc' = "closed"
              /\ UNCHANGED conversationId
         ELSE /\ trace' = Append(trace, Call("insert_conversation", "ok"))
              /\ conversationId' = "c_new"
              /\ pc' = "save_user"
    /\ UNCHANGED <<config, messages, conversationHistory, routerResult,
                   retrievalParams, effectiveQuery, retrieval, generation>>

\* Lines 381-383: a conversation_id was supplied.
UseConversation ==
    /\ pc = "start"
    /\ body.conversation_id # Undefined
    /\ conversationId' = body.conversation_id
    /\ pc' = "save_user"
    /\ UNCHANGED <<config, messages, trace, conversationHistory, routerResult,
                   retrievalParams, effectiveQuery, retrieval, generation>>

\* Lines 402-410.
SaveUserMessage ==
    /\ pc = "save_user"
    /\ \E ok \in BOOLEAN :
         /\ messages' = InsertMessage(messages, "user", body.query, ok)
         /\ trace' = Append(trace, InsertCall("user", body.query, ok))
    /\ pc' = IF body.conversation_id # Undefined THEN "history" ELSE "route"
    /\ UNCHANGED <<config, routing, retrieval, generation>>

\* .order('created_at', { ascending: true }).limit(10)
SelectHistory(rows) == SubSeq(rows, 1, Min(HistoryLimit, Len(rows)))

\* Lines 416-432.
FetchHistory ==
    /\ pc = "history"
    /\ \E found \in BOOLEAN :
         conversationHistory' = IF found THEN SelectHistory(messages) ELSE << >>
    /\ trace' = Append(trace, Call("select_history", << >>))
    /\ pc' = "route"
    /\ UNCHANGED <<config, messages, conversationId, routerResult, retrievalParams,
                   effectiveQuery, retrieval, generation>>

\* ------------------------------------------------------- intent router
\* routeQuery: the RouterResult values it can return.  A conversational
\* filler sets skipRetrieval; suggestedResponse is an optional string.
\* The result when the classification call fails: lookup, retrieval kept.
RouterFallback == [intent |-> "lookup", skipRetrieval |-> FALSE, suggestedResponse |-> None]
RouterResults ==
    {[intent |-> "chit_chat", skipRetrieval |-> TRUE, suggestedResponse |-> s] :
        s \in {None, Some(EmptyText), Some(Greeting)}}
    \cup
    {[intent |-> t, skipRetrieval |-> FALSE, suggestedResponse |-> None] :
        t \in {"lookup", "comparison"}}
    \cup {RouterFallback}

\* getAdaptiveRetrievalParams: comparison/analytical widen, lookup/follow_up
\* narrow; chunkCount >= 1 and expansionQueries >= 0 for every intent.
getAdaptiveRetrievalParams(intent, queryLength) ==
    IF intent \in {"lookup", "follow_up"}
    THEN [chunkCount |-> 1, expansionQueries |-> 0]
    ELSE [chunkCount |-> MaxChunkCount, expansionQueries |-> MaxExpansion]

\* Line 455: the condition of the no-retrieval branch.
TakesShortcut(r) == r.skipRetrieval /\ Truthy(r.suggestedResponse)

\* Lines 434-494: routeQuery, the routing event, the shortcut test, the
\* retrieval parameters and the status events up to the next await.
RouteQuery ==
    /\ pc = "route"
    /\ \E r \in RouterResults :
         /\ routerResult' = r
         /\ LET t1 == sendEvent(trace, "status", "Analyzing query intent...")
                t2 == Append(t1, Call("routeQuery", << >>))
                t3 == sendEvent(t2, "routing", [intent |-> r.intent])
                t4 == sendEvent(Append(t3, Call("getAdaptiveRetrievalParams", << >>)),
                                "status", "Adaptive retrieval")
            IN  IF TakesShortcut(r)
                THEN /\ trace' = t3
                     /\ pc' = "shortcut"
                     /\ UNCHANGED retrievalParams
                ELSE /\ retrievalParams' =
                            getAdaptiveRetrievalParams(r.intent, Len(body.query))
                     /\ IF Len(conversationHistory) > 0
                        THEN /\ trace' = sendEvent(t4, "status", "Rewriting query with context...")
                             /\ pc' = "rewrite"
                        ELSE /\ trace' = sendEvent(t4, "status", "Generating search queries...")
                             /\ pc' = "expand"
    /\ UNCHANGED <<config, messages, conversationId, conversationHistory,
                   effectiveQuery, retrieval, generation>>

\* The done event of the three early-return branches.
EarlyDone(t, payload) == EndAndReturn(sendEvent(t, "done", payload))

\* Lines 455-477: persist and return the canned response.
Shortcut ==
    /\ pc = "shortcut"
    /\ LET text == routerResult.suggestedResponse[1] IN
       \E ok \in BOOLEAN :
         /\ messages' = InsertMessage(messages, "assistant", text, ok)
         /\ trace' = EarlyDone(sendEvent(Append(trace, InsertCall("assistant", text, ok)),
                                         "token", text),
                               [answer |-> text, citations |-> << >>,
                                conversation_id |-> conversationId,
                                intent |-> routerResult.intent])
    /\ pc' = "closed"
    /\ UNCHANGED <<config, routing, retrieval, generation>>

\* rewriteQueryWithContext: the results it can return.
\* The result when the rewriting call fails: the question as it was asked.
RewriteFallback == [rewritten |-> Query, needsContext |-> FALSE]
RewriteResults ==
    [rewritten : {Query, RewrittenQuery}, needsContext : BOOLEAN] \cup {RewriteFallback}

\* Fault: needsContext is not looked at.
AdoptsRewriteAlways(rw) == rw.rewritten # body.query

\* Line 504: the condition under which the rewritten query is adopted.
AdoptsRewrite(rw) == rw.needsContext /\ rw.rewritten # body.query

\* Lines 496-518.
RewriteWith(rw) ==
    /\ pc = "rewrite"
    /\   LET t1 == Append(trace, Call("rewriteQueryWithContext", << >>)) IN
         IF AdoptsRewrite(rw)
         THEN /\ effectiveQuery' = rw.rewritten
              /\ trace' = sendEvent(sendEvent(t1, "rewriting",
                                   [original |-> body.query, rewritten |-> rw.rewritten]),
                                   "status", "Generating search queries...")
         ELSE /\ effectiveQuery' = effectiveQuery
              /\ trace' = sendEvent(t1, "status", "Generating search queries...")
    /\ pc' = "expand"
    /\ UNCHANGED <<config, messages, conversationId, conversationHistory,
                   routerResult, retrievalParams, retrieval, generation>>

\* Line 496: what rewriteQueryWithContext returns.
Rewrite == \E rw \in RewriteResults : RewriteWith(rw)

\* ------------------------------------- the conversation history on its own
\* Messages stored in the conversation before the request.
MaxStored == 11
\* The k-th stored message has a text of its own.
MessageText(k) == <<"m">> \o [j \in 1..k |-> "."]
StoredMessages(n) ==
    [k \in 1..n |-> [role |-> IF k % 2 = 1 THEN "user" ELSE "assistant",
                     content |-> MessageText(k)]]

\* A request that names a conversation holding 0..MaxStored messages, from
\* the point where the question is saved.
HistoryInit ==
    /\ pc = "save_user"
    /\ body = [conversation_id |-> "c1", query |-> Query]
    /\ fallbackModel = ""
    /\ connected = TRUE
    /\ pieces = << >>
    /\ returned = << >>
    /\ \E n \in 0..MaxStored : messages = StoredMessages(n)
    /\ trace = << >>
    /\ conversationId = "c1"
    /\ conversationHistory = << >>
    /\ routerResult = [intent |-> "", skipRetrieval |-> FALSE, suggestedResponse |-> None]
    /\ retrievalParams = [chunkCount |-> 0, expansionQueries |-> 0]
    /\ effectiveQuery = Query
    /\ searchQueries = << >>
    /\ i = 0
    /\ allResults = << >>
    /\ chunks = << >>
    /\ cragResult = [decision |-> "", relevantChunks |-> << >>]
    /\ sources = << >>
    /\ answer = EmptyText
    /\ model = ""
    /\ retryCount = 0
    /\ attempt = 0
    /\ currentModel = ""
    /\ fullAnswer = EmptyText
    /\ deltasRead = 0
    /\ attempts = << >>
    /\ citations = << >>
    /\ assistantMessage = Undefined

\* Lines 402-515: the question is saved, the history fetched, the router
\* and the rewriter are called.
HistoryNext == SaveUserMessage \/ FetchHistory \/ RouteQuery \/ Rewrite
HistorySpec == HistoryInit /\ [][HistoryNext]_vars

\* ------------------------------------------------------- query expander
\* The model output is a sequence of JSON tokens: "[", "]", ",", a string
\* literal ("s:v", "s:w", "s:q") or other text ("x").
TokenValue(tok) ==
    IF tok = "s:v" THEN Variant ELSE IF tok = "s:w" THEN <<"w">> ELSE Query
IsStringToken(tok) == tok \in {"s:v", "s:w", "s:q"}

\* fullContent.match(/\[[\s\S]*\]/): from the first "[" to the last "]".
MatchArray(content) ==
    LET opens == {k \in 1..Len(content) : content[k] = "["}
        closes == {k \in 1..Len(content) : content[k] = "]"}
    IN  IF opens = {} THEN << >>
        ELSE LET f == CHOOSE k \in opens : \A j \in opens : k <= j
                 after == {k \in closes : k > f}
             IN  IF after = {} THEN << >>
                 ELSE SubSeq(content, f, CHOOSE k \in after : \A j \in after : j <= k)

\* JSON.parse of the matched text, for outputs without nested arrays: a
\* bracketed, comma-separated list of string literals.
IsJsonArray(m) ==
    /\ Len(m) >= 2
    /\ m[1] = "[" /\ m[Len(m)] = "]"
    /\ Len(m) > 2 => Len(m) % 2 = 1
    /\ \A k \in 2..(Len(m) - 1) :
          IF k % 2 = 0 THEN IsStringToken(m[k]) ELSE m[k] = ","

ParsedArray(m) == [k \in 1..((Len(m) - 1) \div 2) |-> TokenValue(m[2 * k])]

\* What the provider does with the expansion request.
ExpanderContents ==
    {<< >>, <<"[", "s:v", "]">>, <<"[", "s:v", ",", "s:w", "]">>, <<"x", "[", "s:v">>}
ExpanderOutcomes ==
    {[kind |-> "throw", content |-> << >>], [kind |-> "http_error", content |-> << >>]}
    \cup [kind : {"body", "read_error"}, content : ExpanderContents]

\* Fault: the parsed variants are not cut to queryCount.
generateSearchQueriesUncapped(originalQuery, outcome, queryCount) ==
    IF outcome.kind # "body" THEN <<originalQuery>>
    ELSE LET m == MatchArray(outcome.content) IN
         IF m # << >> /\ IsJsonArray(m)
         THEN <<originalQuery>> \o ParsedArray(m)
         ELSE <<originalQuery>>

\* Lines 53-136: generateSearchQueriesStream.
generateSearchQueriesStream(originalQuery, outcome, queryCount) ==
    IF outcome.kind # "body" THEN <<originalQuery>>
    ELSE LET m == MatchArray(outcome.content) IN
         IF m # << >> /\ IsJsonArray(m)
         THEN <<originalQuery>> \o SubSeq(ParsedArray(m), 1,
                                          Min(queryCount, Len(ParsedArray(m))))
         ELSE <<originalQuery>>

\* Fault: generateSearchQueriesStream has no try/catch, a rejected fetch
\* reaches the handler.
ExpandWithoutCatch ==
    /\ pc = "expand"
    /\ \E outcome \in ExpanderOutcomes :
         LET genResult == generateSearchQueriesStream(effectiveQuery, outcome,
                                                     retrievalParams.expansionQueries)
             called == Append(trace, Call("generateSearchQueriesStream", effectiveQuery))
         IN  IF outcome.kind = "throw"
             THEN trace' = Catch(called) /\ pc' = "closed" /\ UNCHANGED searchQueries
             ELSE /\ searchQueries' = genResult
                  /\ trace' = sendEvent(sendEvent(called, "queries", genResult),
                                        "status", "Searching queries...")
                  /\ pc' = "embed"
    /\ UNCHANGED <<config, messages, routing, i, allResults, chunks, cragResult,
                   sources, generation>>

\* Lines 520-543.
ExpandWith(outcome) ==
    /\ pc = "expand"
    /\   LET genResult == generateSearchQueriesStream(effectiveQuery, outcome,
                                                     retrievalParams.expansionQueries)
         IN  /\ searchQueries' = genResult
             /\ trace' = sendEvent(sendEvent(Append(trace, Call("generateSearchQueriesStream", effectiveQuery)),
                                             "queries", genResult),
                                   "status", "Searching queries...")
    /\ pc' = "embed"
    /\ UNCHANGED <<config, messages, routing, i, allResults, chunks, cragResult,
                   sources, generation>>

\* Lines 72-123: what the provider does with the expansion request.
Expand == \E outcome \in ExpanderOutcomes : ExpandWith(outcome)

\* --------------------------------- generateSearchQueriesStream on its own
\* Model outputs: nothing, arrays of one and two variants, the same variant
\* twice, a variant equal to the question, an empty array, an array inside
\* other text, an array followed by text with a "]", two arrays, an
\* unclosed array, an array of something that is not JSON, plain text.
ExpanderTexts ==
    {<< >>,
     <<"[", "s:v", "]">>,
     <<"[", "s:v", ",", "s:w", "]">>,
     <<"[", "s:v", ",", "s:v", "]">>,
     <<"[", "s:q", "]">>,
     <<"[", "]">>,
     <<"x", "[", "s:v", "]", "x">>,
     <<"[", "s:v", "]", "x", "]">>,
     <<"[", "s:v", "]", "[", "s:w", "]">>,
     <<"x", "[", "s:v">>,
     <<"[", "x", "]">>,
     <<"x">>}
ExpanderInputs ==
    {[kind |-> "throw", content |-> << >>], [kind |-> "http_error", content |-> << >>]}
    \cup [kind : {"body", "read_error"}, content : ExpanderTexts]

\* The expansion step with the effective query, the number of variants
\* asked for and the provider's behaviour drawn beforehand.
ExpanderInit ==
    /\ pc = "expand"
    /\ body = [conversation_id |-> Undefined, query |-> Query]
    /\ fallbackModel = ""
    /\ connected = TRUE
    /\ pieces = << >>
    /\ \E outcome \in ExpanderInputs : returned = <<outcome>>
    /\ messages = << >>
    /\ trace = << >>
    /\ conversationId = "c_new"
    /\ conversationHistory = << >>
    /\ routerResult = [intent |-> "comparison", skipRetrieval |-> FALSE,
                       suggestedResponse |-> None]
    /\ \E count \in 0..(MaxExpansion + 1) :
         retrievalParams = [chunkCount |-> 1, expansionQueries |-> count]
    /\ effectiveQuery \in {Query, RewrittenQuery}
    /\ searchQueries = << >>
    /\ i = 0
    /\ allResults = << >>
    /\ chunks = << >>
    /\ cragResult = [decision |-> "", relevantChunks |-> << >>]
    /\ sources = << >>
    /\ answer = EmptyText
    /\ model = ""
    /\ retryCount = 0
    /\ attempt = 0
    /\ currentModel = ""
    /\ fullAnswer = EmptyText
    /\ deltasRead = 0
    /\ attempts = << >>
    /\ citations = << >>
    /\ assistantMessage = Undefined

ExpanderExpand == pc = "expand" /\ ExpandWith(returned[1])

ExpanderSpec == ExpanderInit /\ [][ExpanderExpand]_vars

\* Fault: a failed embedding call is logged and skipped like a failed
\* search, and the variants are searched all the same.
EmbedSkipsFailure ==
    /\ pc = "embed"
    /\ \E thrown \in BOOLEAN :
         /\ trace' = Append(trace, Call("embed", IF thrown THEN "error" ELSE "ok"))
         /\ pc' = "search"
         /\ i' = 1
         /\ allResults' = << >>
    /\ UNCHANGED <<config, messages, routing, searchQueries, chunks, cragResult,
                   sources, generation>>

\* ------------------------------------------------------ fusion retriever
\* Line 154: one batched embedding call; it returns or throws.
Embed ==
    /\ pc = "embed"
    /\ \E thrown \in BOOLEAN :
         IF thrown
         THEN /\ trace' = Catch(Append(trace, Call("embed", "error")))
              /\ pc' = "closed"
              /\ UNCHANGED <<i, allResults>>
         ELSE /\ trace' = Append(trace, Call("embed", "ok"))
              /\ pc' = "search"
              /\ i' = 1
              /\ allResults' = << >>
    /\ UNCHANGED <<config, messages, routing, searchQueries, chunks, cragResult,
                   sources, generation>>

\* Rows of hybrid_search.  Similarity is counted in 1/16.
Row(id, source, similarity) ==
    [id |-> id, chunk_id |-> id, source_id |-> source, source_title |-> "T",
     page |-> Undefined, text |-> <<"t">>, similarity |-> similarity]
SearchData ==
    {<< >>, <<Row("k2", "s1", 16), Row("k1", "s2", 8)>>}

\* Lines 175-184: one row merged into the Map.
MergeChunk(all, chunk) ==
    LET hits == {k \in 1..Len(all) : all[k].id = chunk.id} IN
    IF hits # {}
    THEN LET k == CHOOSE h \in hits : TRUE IN
         [all EXCEPT ![k].similarity = (@ + chunk.similarity) \div 2,
                     ![k].queryCount = @ + 1]
    ELSE Append(all, [id |-> chunk.id, chunk_id |-> chunk.chunk_id,
                      source_id |-> chunk.source_id,
                      source_title |-> chunk.source_title, page |-> chunk.page,
                      text |-> chunk.text, similarity |-> chunk.similarity,
                      queryCount |-> 1])

RECURSIVE MergeRows(_, _)
MergeRows(all, rows) ==
    IF rows = << >> THEN all
    ELSE MergeRows(MergeChunk(all, Head(rows)), Tail(rows))

\* Array.prototype.sort with (a, b) => b.similarity - a.similarity: stable.
RECURSIVE SortBySimilarity(_)
SortBySimilarity(s) ==
    IF s = << >> THEN << >>
    ELSE LET rest == SortBySimilarity(SubSeq(s, 1, Len(s) - 1))
             e == s[Len(s)]
             before == {k \in 1..Len(rest) : rest[k].similarity >= e.similarity}
             n == Cardinality(before)
         IN  SubSeq(rest, 1, n) \o <<e>> \o SubSeq(rest, n + 1, Len(rest))

\* Fault: the merged results are cut without being sorted.
TopResultsUnsorted(all, chunkCount) == SubSeq(all, 1, Min(chunkCount, Len(all)))

\* Lines 187-192.
TopResults(all, chunkCount) ==
    SubSeq(SortBySimilarity(all), 1, Min(chunkCount, Len(all)))

\* Fault: only !chunks is tested, and an array is never falsy.
IsEmptyResultNever(cs) == FALSE

\* Line 559: the condition of the no-sources branch.
IsEmptyResult(cs) == Len(cs) = 0

\* Fault: a failed search discards what the earlier variants returned.
MergeResultResets(all, error, data) ==
    IF error THEN << >> ELSE MergeRows(all, data)

\* Lines 169-185: a failed search is logged and skipped (continue), the rows
\* of a successful one are merged.
MergeResult(all, error, data) ==
    IF error THEN all ELSE MergeRows(all, data)

\* Fault: a failed search is thrown instead of skipped and reaches the
\* handler's catch.
SearchWithThrow(error, data) ==
    /\ pc = "search"
    /\ i <= Len(searchQueries)
    /\   LET merged == MergeResult(allResults, error, data)
             called == Append(trace, Call("hybrid_search", searchQueries[i]))
             top == TopResults(merged, retrievalParams.chunkCount)
         IN  IF error
             THEN /\ trace' = Catch(called)
                  /\ pc' = "closed"
                  /\ allResults' = << >>
                  /\ i' = 0
                  /\ UNCHANGED chunks
             ELSE IF i < Len(searchQueries)
             THEN /\ allResults' = merged
                  /\ i' = i + 1
                  /\ trace' = called
                  /\ pc' = "search"
                  /\ UNCHANGED chunks
             ELSE /\ allResults' = << >>
                  /\ i' = 0
                  /\ chunks' = top
                  /\ IF IsEmptyResult(top)
                     THEN trace' = called /\ pc' = "no_sources"
                     ELSE /\ trace' = sendEvent(called, "status", "Grading chunk relevance...")
                          /\ pc' = "grade_chunks"
    /\ UNCHANGED <<config, messages, routing, searchQueries, cragResult, sources,
                   generation>>

\* Lines 159-192 and 559, 577: the search of one query variant; after the
\* last one the merged results are sorted and cut, and the locals of
\* multiQuerySearch are gone.
SearchWith(error, data) ==
    /\ pc = "search"
    /\ i <= Len(searchQueries)
    /\   LET merged == MergeResult(allResults, error, data)
             called == Append(trace, Call("hybrid_search", searchQueries[i]))
             top == TopResults(merged, retrievalParams.chunkCount)
         IN  /\ IF i < Len(searchQueries)
                THEN /\ allResults' = merged
                     /\ i' = i + 1
                     /\ trace' = called
                     /\ pc' = "search"
                     /\ UNCHANGED chunks
                ELSE /\ allResults' = << >>
                     /\ i' = 0
                     /\ chunks' = top
                     /\ IF IsEmptyResult(top)
                        THEN trace' = called /\ pc' = "no_sources"
                        ELSE /\ trace' = sendEvent(called, "status", "Grading chunk relevance...")
                             /\ pc' = "grade_chunks"
    /\ UNCHANGED <<config, messages, routing, searchQueries, cragResult, sources,
                   generation>>

\* Line 160: hybrid_search answers with an error or with rows.
Search == \E error \in BOOLEAN, data \in SearchData : SearchWith(error, data)

\* Lines 157-185: the Map after every variant's rows have been merged; a
\* variant whose search failed is skipped (line 171).
RECURSIVE multiQueryMerge(_)
multiQueryMerge(results) ==
    IF results = << >> THEN << >>
    ELSE LET before == multiQueryMerge(SubSeq(results, 1, Len(results) - 1))
             last == results[Len(results)]
         IN  MergeResult(before, last.error, last.data)

\* Lines 142-193.
multiQuerySearch(results, chunkCount) ==
    TopResults(multiQueryMerge(results), chunkCount)

\* ------------------------------------------- multiQuerySearch on its own
\* Query variants handed to multiQuerySearch.
MaxVariants == 3
QueryVariants == <<Query, Variant, <<"w">>, <<"u">>>>

\* A row of hybrid_search.  ask-stream.ts reads id and chunk_id of a row;
\* the other callers of hybrid_search read chunk_id only, so rows either
\* carry an id column equal to chunk_id or carry none.
FusionRow(chunk, similarity, carriesId) ==
    [Row(chunk, "s1", similarity) EXCEPT !.id = IF carriesId THEN chunk ELSE Undefined]

FusionData(carriesId) ==
    {<< >>,
     <<FusionRow("k1", 16, carriesId)>>,
     <<FusionRow("k1", 8, carriesId)>>,
     <<FusionRow("k2", 8, carriesId)>>,
     <<FusionRow("k1", 16, carriesId), FusionRow("k2", 8, carriesId)>>,
     <<FusionRow("k2", 8, carriesId), FusionRow("k3", 8, carriesId)>>}

FusionResults(carriesId, matchCount) ==
    {[error |-> TRUE, data |-> << >>]}
    \cup {[error |-> FALSE, data |-> d] :
            d \in {x \in FusionData(carriesId) : Len(x) <= matchCount}}

\* multiQuerySearch after the embeddings have been computed: the variants,
\* the chunk count asked for, and what each variant's search will return.
FusionInit ==
    /\ pc = "search"
    /\ body = [conversation_id |-> Undefined, query |-> Query]
    /\ fallbackModel = ""
    /\ connected = TRUE
    /\ pieces = << >>
    /\ \E n \in 2..MaxVariants, chunkCount \in 1..MaxChunkCount, carriesId \in BOOLEAN :
         /\ searchQueries = SubSeq(QueryVariants, 1, n)
         /\ retrievalParams = [chunkCount |-> chunkCount, expansionQueries |-> n - 1]
         /\ returned \in [1..n -> FusionResults(carriesId, chunkCount)]
    /\ messages = << >>
    /\ trace = << >>
    /\ conversationId = "c_new"
    /\ conversationHistory = << >>
    /\ routerResult = [intent |-> "comparison", skipRetrieval |-> FALSE,
                       suggestedResponse |-> None]
    /\ effectiveQuery = Query
    /\ i = 1
    /\ allResults = << >>
    /\ chunks = << >>
    /\ cragResult = [decision |-> "", relevantChunks |-> << >>]
    /\ sources = << >>
    /\ answer = EmptyText
    /\ model = ""
    /\ retryCount = 0
    /\ attempt = 0
    /\ currentModel = ""
    /\ fullAnswer = EmptyText
    /\ deltasRead = 0
    /\ attempts = << >>
    /\ citations = << >>
    /\ assistantMessage = Undefined

\* The loop of lines 159-185 with the results drawn beforehand.
FusionSearch == pc = "search" /\ SearchWith(returned[i].error, returned[i].data)

FusionSpec == FusionInit /\ [][FusionSearch]_vars

\* Lines 559-574.
NoSources ==
    /\ pc = "no_sources"
    /\ \E ok \in BOOLEAN :
         /\ messages' = InsertMessage(messages, "assistant", NoSourcesResponse, ok)
         /\ trace' = EarlyDone(Append(trace, InsertCall("assistant", NoSourcesResponse, ok)),
                               [answer |-> NoSourcesResponse, citations |-> << >>,
                                conversation_id |-> conversationId])
    /\ pc' = "closed"
    /\ UNCHANGED <<config, routing, retrieval, generation>>

\* ------------------------------------------------------ relevance grader
Indices(s, keep) ==
    LET F[k \in 0..Len(s)] ==
            IF k = 0 THEN << >>
            ELSE IF k \in keep THEN Append(F[k - 1], s[k]) ELSE F[k - 1]
    IN  F[Len(s)]

\* gradeChunksRelevance: the CRAGResult values it can return for cs.
\* The result when the grading call fails: proceed with every chunk.
CragFallback(cs) == [decision |-> "proceed", relevantChunks |-> cs]
CragResults(cs) ==
    {CragFallback(cs),
     [decision |-> "no_relevant_sources", relevantChunks |-> << >>]}
    \cup
    {[decision |-> "proceed_filtered", relevantChunks |-> Indices(cs, keep)] :
        keep \in (SUBSET (1..Len(cs))) \ {1..Len(cs)}}

\* Fault: the sources are built from relevantChunks also when it is empty.
PrepareSourcesNoFallback(crag, cs) ==
    [k \in 1..Len(crag.relevantChunks) |->
        [id |-> crag.relevantChunks[k].chunk_id,
         source_id |-> crag.relevantChunks[k].source_id,
         title |-> crag.relevantChunks[k].source_title,
         page |-> crag.relevantChunks[k].page,
         text |-> crag.relevantChunks[k].text]]

\* Lines 616-625.
PrepareSources(crag, cs) ==
    LET filteredChunks == IF Len(crag.relevantChunks) > 0 THEN crag.relevantChunks ELSE cs
    IN  [k \in 1..Len(filteredChunks) |->
            [id |-> filteredChunks[k].chunk_id,
             source_id |-> filteredChunks[k].source_id,
             title |-> filteredChunks[k].source_title,
             page |-> filteredChunks[k].page,
             text |-> filteredChunks[k].text]]

\* Line 628: one {source_id, title} per source_id, in order of first use.
UniqueSources(srcs) ==
    LET first == {k \in 1..Len(srcs) :
                    \A j \in 1..(k - 1) : srcs[j].source_id # srcs[k].source_id}
        last(k) == CHOOSE j \in 1..Len(srcs) :
                     /\ srcs[j].source_id = srcs[k].source_id
                     /\ \A h \in (j + 1)..Len(srcs) : srcs[h].source_id # srcs[k].source_id
    IN  Indices([k \in 1..Len(srcs) |->
                    [source_id |-> srcs[k].source_id, title |-> srcs[last(k)].title]],
                first)

\* Fault: the decision is compared with a misspelt literal.
AbstainsMisspelt(crag) == crag.decision = "no_relevant"

\* Line 598: the condition of the abstention branch.
Abstains(crag) == crag.decision = "no_relevant_sources"

\* Lines 579-650: gradeChunksRelevance, the grading event, and either the
\* abstention branch or the sources event and the first generator call.
GradeChunks ==
    /\ pc = "grade_chunks"
    /\ \E crag \in CragResults(chunks) :
         LET t1 == sendEvent(Append(trace, Call("gradeChunksRelevance", effectiveQuery)),
                             "grading",
                             [decision |-> crag.decision,
                              relevantCount |-> Len(crag.relevantChunks),
                              totalCount |-> Len(chunks)])
             srcs == PrepareSources(crag, chunks)
         IN  /\ cragResult' = crag
             /\ IF Abstains(crag)
                THEN /\ trace' = t1
                     /\ pc' = "abstain"
                     /\ UNCHANGED <<sources, attempt, currentModel>>
                ELSE /\ sources' = srcs
                     /\ trace' = Append(sendEvent(sendEvent(sendEvent(t1,
                                      "sources", UniqueSources(srcs)),
                                      "status", "Using relevant chunks"),
                                      "status", "Generating answer..."),
                                      GeneratorCall(srcs, effectiveQuery))
                     /\ attempt' = 0
                     /\ currentModel' = PrimaryModel
                     /\ pc' = "gen_fetch"
    /\ UNCHANGED <<config, messages, routing, searchQueries, i, allResults, chunks,
                   answer, model, retryCount, fullAnswer, deltasRead, attempts,
                   citations, assistantMessage>>

\* Lines 598-613.
Abstain ==
    /\ pc = "abstain"
    /\ \E ok \in BOOLEAN :
         /\ messages' = InsertMessage(messages, "assistant", NoRelevantResponse, ok)
         /\ trace' = EarlyDone(Append(trace, InsertCall("assistant", NoRelevantResponse, ok)),
                               [answer |-> NoRelevantResponse, citations |-> << >>,
                                conversation_id |-> conversationId])
    /\ pc' = "closed"
    /\ UNCHANGED <<config, routing, retrieval, generation>>

\* ------------------------------------------------------ answer generator
Marker1 == <<"[", "S", "o", "u", "r", "c", "e", " ", "1", "]">>
\* The parsed data lines of the provider's stream: one delta is shorter than
\* the graded length, two deltas together are longer.
DeltaContent == Marker1 \o [k \in 1..20 |-> "x"]
Deltas == {[reasoning |-> "r", content |-> DeltaContent]}

MarkLast(log, outcome, content) ==
    [log EXCEPT ![Len(log)].outcome = outcome, ![Len(log)].content = content]

\* Fault: the attempt counter is tested off by one.
CanFallBackOffByOne == attempt = 1 /\ fallbackModel # "" /\ fallbackModel # currentModel

\* Fault: a fallback equal to the current model is tried as well.
CanFallBackSameModel == attempt = 0 /\ fallbackModel # ""

\* Line 300: the condition of the model switch.
CanFallBack == attempt = 0 /\ fallbackModel # "" /\ fallbackModel # currentModel

\* Fault: with no fallback left the error is swallowed and the handler goes
\* on with the answer it has.
GenFailureSwallowed(t) ==
    /\ trace' = t
    /\ IF CanFallBack
       THEN /\ currentModel' = fallbackModel
            /\ attempt' = attempt + 1
            /\ pc' = "gen_fetch"
       ELSE /\ pc' = "persist"
            /\ UNCHANGED <<attempt, currentModel>>

\* Fault: when the regeneration fails the handler keeps the first answer
\* and goes on to persist it.
GenFailureKeepsFirstAnswer(t) ==
    IF CanFallBack
    THEN /\ currentModel' = fallbackModel
         /\ attempt' = attempt + 1
         /\ trace' = t
         /\ pc' = "gen_fetch"
    ELSE /\ trace' = IF retryCount > 0 THEN t ELSE Catch(t)
         /\ pc' = IF retryCount > 0 THEN "persist" ELSE "closed"
         /\ UNCHANGED <<attempt, currentModel>>

\* Lines 298-306: the catch of streamChatCompletion; the rethrown error
\* leaves the handler's try block.
GenFailure(t) ==
    IF CanFallBack
    THEN /\ currentModel' = fallbackModel
         /\ attempt' = attempt + 1
         /\ trace' = t
         /\ pc' = "gen_fetch"
    ELSE /\ trace' = Catch(t)
         /\ pc' = "closed"
         /\ UNCHANGED <<attempt, currentModel>>

\* Fault: fullAnswer is declared outside the attempt loop and keeps the text
\* of the attempt that failed or was superseded.
GenFetchKeepsBuffer ==
    /\ pc = "gen_fetch"
    /\ IF attempt >= maxAttempts
       THEN /\ trace' = Catch(trace)
            /\ pc' = "closed"
            /\ UNCHANGED generator
       ELSE /\ \E ok \in BOOLEAN :
                 IF ok
                 THEN /\ trace' = Append(trace, Call("chat_completions", currentModel))
                      /\ attempts' = Append(attempts,
                              [invocation |-> retryCount, model |-> currentModel,
                               outcome |-> "streaming", content |-> EmptyText])
                      /\ deltasRead' = 0
                      /\ pc' = "gen_read"
                      /\ UNCHANGED <<attempt, currentModel, fullAnswer>>
                 ELSE /\ attempts' = Append(attempts,
                              [invocation |-> retryCount, model |-> currentModel,
                               outcome |-> "failed", content |-> EmptyText])
                      /\ GenFailure(Append(trace, Call("chat_completions", currentModel)))
                      /\ UNCHANGED <<fullAnswer, deltasRead>>
    /\ UNCHANGED <<config, messages, routing, retrieval, answer, model, retryCount,
                   citations, assistantMessage>>

\* Lines 236-262: one request to the provider; a rejected fetch and a
\* non-2xx response both end in the catch.
GenFetch ==
    /\ pc = "gen_fetch"
    /\ IF attempt >= maxAttempts
       THEN /\ trace' = Catch(trace)
            /\ pc' = "closed"
            /\ UNCHANGED generator
       ELSE /\ \E ok \in BOOLEAN :
                 IF ok
                 THEN /\ trace' = Append(trace, Call("chat_completions", currentModel))
                      /\ attempts' = Append(attempts,
                              [invocation |-> retryCount, model |-> currentModel,
                               outcome |-> "streaming", content |-> EmptyText])
                      /\ fullAnswer' = EmptyText
                      /\ deltasRead' = 0
                      /\ pc' = "gen_read"
                      /\ UNCHANGED <<attempt, currentModel>>
                 ELSE /\ attempts' = Append(attempts,
                              [invocation |-> retryCount, model |-> currentModel,
                               outcome |-> "failed", content |-> EmptyText])
                      /\ GenFailure(Append(trace, Call("chat_completions", currentModel)))
                      /\ UNCHANGED <<fullAnswer, deltasRead>>
    /\ UNCHANGED <<config, messages, routing, retrieval, answer, model, retryCount,
                   citations, assistantMessage>>

\* Fault: the content of a delta that carries reasoning is not looked at
\* (else if instead of a second if).
GenDeltaElseIf(d) ==
    /\ pc = "gen_read"
    /\ IF d.reasoning # ""
       THEN /\ trace' = sendEvent(trace, "thinking", d.reasoning)
            /\ fullAnswer' = fullAnswer
       ELSE /\ fullAnswer' = fullAnswer \o d.content
            /\ trace' = IF d.content # EmptyText THEN sendEvent(trace, "token", d.content)
                        ELSE trace
    /\ deltasRead' = deltasRead + 1
    /\ UNCHANGED <<pc, config, messages, routing, retrieval, answer, model,
                   retryCount, attempt, currentModel, attempts, citations,
                   assistantMessage>>

\* Lines 272-293 and 651-654: one parsed data line; its reasoning is
\* yielded as thinking, its content is appended to fullAnswer and yielded
\* as token, and the handler sends each yielded event before the generator
\* goes on.
GenDeltaWith(d) ==
    /\ pc = "gen_read"
    /\ fullAnswer' = fullAnswer \o d.content
    /\ LET t1 == IF d.reasoning # "" THEN sendEvent(trace, "thinking", d.reasoning)
                 ELSE trace
       IN  trace' = IF d.content # EmptyText THEN sendEvent(t1, "token", d.content)
                    ELSE t1
    /\ deltasRead' = deltasRead + 1
    /\ UNCHANGED <<pc, config, messages, routing, retrieval, answer, model,
                   retryCount, attempt, currentModel, attempts, citations,
                   assistantMessage>>

\* Lines 264-295 and 651-654: one delta is read and forwarded.
GenDelta ==
    /\ deltasRead < MaxDeltas
    /\ \E d \in Deltas : GenDeltaWith(d)

\* Lines 264-306: reading the stream fails.
GenReadError ==
    /\ pc = "gen_read"
    /\ attempts' = MarkLast(attempts, "failed", fullAnswer)
    /\ GenFailure(trace)
    /\ UNCHANGED <<config, messages, routing, retrieval, answer, model,
                   retryCount, fullAnswer, deltasRead, citations, assistantMessage>>

\* Fault: the retry counter is not tested, every long answer is graded.
IsGradedEveryPass(count, text) == Len(text) > MinGradedLength

\* Line 661: the condition of the answer grading.
IsGraded(count, text) == count = 0 /\ Len(text) > MinGradedLength

\* Fault: the result of the regeneration is not assigned to answer.
GenCompleteKeepsFirst ==
    /\ pc = "gen_read"
    /\ attempts' = MarkLast(attempts, "ok", fullAnswer)
    /\ answer' = IF retryCount = 0 THEN fullAnswer ELSE answer
    /\ model' = currentModel
    /\ IF IsGraded(retryCount, fullAnswer)
       THEN /\ trace' = sendEvent(trace, "status", "Verifying answer quality...")
            /\ pc' = "grade_answer"
       ELSE /\ trace' = trace
            /\ pc' = "persist"
    /\ UNCHANGED <<config, messages, routing, retrieval, retryCount, attempt,
                   currentModel, fullAnswer, deltasRead, citations, assistantMessage>>

\* Lines 297 and 656-662: the stream ends, the attempt returns its answer.
GenComplete ==
    /\ pc = "gen_read"
    /\ attempts' = MarkLast(attempts, "ok", fullAnswer)
    /\ answer' = fullAnswer
    /\ model' = currentModel
    /\ IF IsGraded(retryCount, fullAnswer)
       THEN /\ trace' = sendEvent(trace, "status", "Verifying answer quality...")
            /\ pc' = "grade_answer"
       ELSE /\ trace' = trace
            /\ pc' = "persist"
    /\ UNCHANGED <<config, messages, routing, retrieval, retryCount, attempt,
                   currentModel, fullAnswer, deltasRead, citations, assistantMessage>>

\* gradeAnswer: shouldRetry of the grade it returns; when the grading call
\* fails the answer is kept.
GradeFallback == FALSE
AnswerGrades == BOOLEAN \cup {GradeFallback}

\* Line 685: the condition of the regeneration.
Regenerates(shouldRetry, count) == shouldRetry /\ count < MAX_ANSWER_RETRIES

\* Lines 664-693 and 640-650: gradeAnswer, the reflection event, and either
\* the second generator call or the end of the loop.
GradeAnswer ==
    /\ pc = "grade_answer"
    /\ \E shouldRetry \in AnswerGrades :
         LET t1 == sendEvent(Append(trace, Call("gradeAnswer",
                                                [query |-> effectiveQuery,
                                                 answer |-> answer,
                                                 shouldRetry |-> shouldRetry])),
                             "reflection", << >>)
         IN  IF Regenerates(shouldRetry, retryCount)
             THEN /\ trace' = Append(sendEvent(t1, "status",
                                               "Answer quality low, regenerating..."),
                                     GeneratorCall(sources, effectiveQuery))
                  /\ retryCount' = retryCount + 1
                  /\ attempt' = 0
                  /\ currentModel' = PrimaryModel
                  /\ pc' = "gen_fetch"
             ELSE /\ trace' = t1
                  /\ pc' = "persist"
                  /\ UNCHANGED <<retryCount, attempt, currentModel>>
    /\ UNCHANGED <<config, messages, routing, retrieval, answer, model, fullAnswer,
                   deltasRead, attempts, citations, assistantMessage>>

\* ---------------------------------------------------- citation extractor
DigitChars == <<"0", "1", "2", "3", "4", "5", "6", "7", "8", "9">>
IsDigit(c) == \E k \in 1..10 : DigitChars[k] = c
DigitValue(c) == (CHOOSE k \in 1..10 : DigitChars[k] = c) - 1
IsSpace(c) == c \in {" ", "\n", "\t"}
Keyword == <<"s", "o", "u", "r", "c", "e">>
ToLower(c) ==
    IF c = "S" THEN "s" ELSE IF c = "O" THEN "o" ELSE IF c = "U" THEN "u"
    ELSE IF c = "R" THEN "r" ELSE IF c = "C" THEN "c" ELSE IF c = "E" THEN "e"
    ELSE c

\* parseInt(digits, 10)
RECURSIVE ParseInt(_)
ParseInt(digits) ==
    IF digits = << >> THEN 0
    ELSE 10 * ParseInt(SubSeq(digits, 1, Len(digits) - 1)) + DigitValue(digits[Len(digits)])

\* The first position at or after p whose character fails the test.
SkipSpaces(text, p) ==
    IF \E k \in p..Len(text) : ~IsSpace(text[k])
    THEN CHOOSE k \in p..Len(text) :
            ~IsSpace(text[k]) /\ \A j \in p..(k - 1) : IsSpace(text[j])
    ELSE Len(text) + 1
SkipDigits(text, p) ==
    IF \E k \in p..Len(text) : ~IsDigit(text[k])
    THEN CHOOSE k \in p..Len(text) :
            ~IsDigit(text[k]) /\ \A j \in p..(k - 1) : IsDigit(text[j])
    ELSE Len(text) + 1

\* /\[Source\s*(\d+)\]/gi tried at position p: the position after the match
\* and the number, or last = 0.
MatchAt(text, p) ==
    IF /\ p + 6 <= Len(text)
       /\ text[p] = "["
       /\ \A k \in 1..6 : ToLower(text[p + k]) = Keyword[k]
    THEN LET w == SkipSpaces(text, p + 7)
             d == SkipDigits(text, w)
         IN  IF d > w /\ d <= Len(text) /\ text[d] = "]"
             THEN [last |-> d, n |-> ParseInt(SubSeq(text, w, d - 1))]
             ELSE [last |-> 0, n |-> 0]
    ELSE [last |-> 0, n |-> 0]

\* source.text.substring(0, 200) + '...'
Snippet(text) == SubSeq(text, 1, Min(SnippetLength, Len(text))) \o <<".", ".", ".">>

CitationOf(source) ==
    [chunk_id |-> source.id, source_id |-> source.source_id,
     title |-> IF source.title = "" THEN "Untitled" ELSE source.title,
     page |-> IF source.page = Undefined THEN Null ELSE source.page,
     snippet |-> Snippet(source.text)]

\* Fault: the captured number is used as the index without the - 1.
MatchesOneBased(text) ==
    {[at |-> p, sourceIndex |-> MatchAt(text, p).n] :
        p \in {q \in 1..Len(text) : MatchAt(text, q).last # 0}}

\* Lines 320-321.  The scan of the global regex visits every position where
\* the pattern matches: a match opens with "[" and holds no other "[", so
\* two matches never overlap.  Each match with its 0-based source index.
Matches(text) ==
    {[at |-> p, sourceIndex |-> MatchAt(text, p).n - 1] :
        p \in {q \in 1..Len(text) : MatchAt(text, q).last # 0}}

\* Where a source index is first matched; later matches of it are skipped
\* by citedSources.has (line 324).
FirstMatch(matches, sourceIndex) ==
    CHOOSE p \in {m.at : m \in {x \in matches : x.sourceIndex = sourceIndex}} :
        \A m \in matches : m.sourceIndex = sourceIndex => p <= m.at

\* Lines 322-336: the matches whose index names a source, one citation for
\* each, in the order of their first match.
CitationsOf(matches, srcs) ==
    [k \in 1..Cardinality({m.sourceIndex : m \in matches} \cap 0..(Len(srcs) - 1)) |->
        CitationOf(srcs[1 + CHOOSE sourceIndex \in
                {m.sourceIndex : m \in matches} \cap 0..(Len(srcs) - 1) :
            Cardinality({m \in matches :
                /\ m.sourceIndex \in 0..(Len(srcs) - 1)
                /\ m.at = FirstMatch(matches, m.sourceIndex)
                /\ m.at <= FirstMatch(matches, sourceIndex)}) = k])]

\* Lines 315-339; the text is scanned once.
extractCitations(text, srcs) ==
    CHOOSE found \in {CitationsOf(matches, srcs) : matches \in {Matches(text)}} : TRUE

\* ------------------------------------------------- persistence and done
\* Fault: the assistant message is never inserted.
PersistWithoutInsert ==
    /\ pc = "persist"
    /\ citations' = extractCitations(answer, sources)
    /\ pc' = "audit"
    /\ UNCHANGED <<config, messages, trace, routing, retrieval, answer, model,
                   retryCount, generator, assistantMessage>>

\* Fault: the error result of the insert is tested and thrown.
PersistThrowsOnError ==
    /\ pc = "persist"
    /\ citations' = extractCitations(answer, sources)
    /\ \E ok \in BOOLEAN :
         /\ messages' = InsertMessage(messages, "assistant", answer, ok)
         /\ trace' = IF ok THEN Append(trace, InsertCall("assistant", answer, ok))
                     ELSE Catch(Append(trace, InsertCall("assistant", answer, ok)))
         /\ assistantMessage' = IF ok THEN "m_new" ELSE Undefined
         /\ pc' = IF ok THEN "audit" ELSE "closed"
    /\ UNCHANGED <<config, routing, retrieval, answer, model, retryCount, generator>>

\* Lines 696-710: the citations and the assistant message.
Persist ==
    /\ pc = "persist"
    /\ citations' = extractCitations(answer, sources)
    /\ \E ok \in BOOLEAN :
         /\ messages' = InsertMessage(messages, "assistant", answer, ok)
         /\ trace' = Append(trace, InsertCall("assistant", answer, ok))
         /\ assistantMessage' = IF ok THEN "m_new" ELSE Undefined
    /\ pc' = "audit"
    /\ UNCHANGED <<config, routing, retrieval, answer, model, retryCount, generator>>

\* Lines 712-750: the audit event is inserted, then done is sent and the
\* finally block runs.
AuditAndDone ==
    /\ pc = "audit"
    /\ trace' = Finally(sendEvent(Append(trace, Call("insert_audit", << >>)), "done",
                          [answer |-> answer, citations |-> citations,
                           conversation_id |-> conversationId,
                           message_id |-> assistantMessage,
                           intent |-> routerResult.intent,
                           crag_decision |-> cragResult.decision]))
    /\ pc' = "closed"
    /\ UNCHANGED <<config, messages, routing, retrieval, generation>>

\* ------------------------------------------- extractCitations on its own
\* Answer texts: up to MaxPieces pieces, each a marker as the regex accepts
\* it (n is its number) or text that is no marker (n = -1).
AnswerPieces ==
    {[text |-> Marker1, n |-> 1],
     [text |-> <<"[", "s", "o", "u", "r", "c", "e", " ", "2", "]">>, n |-> 2],
     [text |-> <<"[", "S", "O", "U", "R", "C", "E", "3", "]">>, n |-> 3],
     [text |-> <<"[", "S", "o", "u", "r", "c", "e", " ", "0", "]">>, n |-> 0],
     [text |-> <<"[", "S", "o", "u", "r", "c", "e", " ", "]">>, n |-> -1],
     [text |-> <<"x">>, n |-> -1]}

RECURSIVE JoinPieces(_)
JoinPieces(ps) ==
    IF ps = << >> THEN EmptyText ELSE JoinPieces(SubSeq(ps, 1, Len(ps) - 1)) \o ps[Len(ps)].text

ChunkIds == <<"k1", "k2", "k3", "k4">>
\* The first source has a text longer than the snippet length, the others a
\* short one.
GivenSources(n) ==
    [k \in 1..n |-> [id |-> ChunkIds[k], source_id |-> "s1",
                     title |-> IF k = 1 THEN "" ELSE "T",
                     page |-> Undefined,
                     text |-> IF k = 1 THEN [j \in 1..(SnippetLength + 1) |-> "t"]
                              ELSE <<"t">>]]

\* A handler about to extract the citations of the answer JoinPieces(ps).
CiteInit ==
    /\ pc = "persist"
    /\ body = [conversation_id |-> Undefined, query |-> Query]
    /\ fallbackModel = ""
    /\ connected = TRUE
    /\ \E len \in 0..MaxPieces : pieces \in [1..len -> AnswerPieces]
    /\ returned = << >>
    /\ messages = << >>
    /\ trace = << >>
    /\ conversationId = "c_new"
    /\ conversationHistory = << >>
    /\ routerResult = [intent |-> "lookup", skipRetrieval |-> FALSE,
                       suggestedResponse |-> None]
    /\ retrievalParams = [chunkCount |-> MaxSources, expansionQueries |-> 0]
    /\ effectiveQuery = Query
    /\ searchQueries = <<Query>>
    /\ i = 0
    /\ allResults = << >>
    /\ chunks = << >>
    /\ cragResult = [decision |-> "proceed", relevantChunks |-> << >>]
    /\ \E n \in 0..MaxSources : sources = GivenSources(n)
    /\ answer = JoinPieces(pieces)
    /\ model = PrimaryModel
    /\ retryCount = 0
    /\ attempt = 0
    /\ currentModel = PrimaryModel
    /\ fullAnswer = answer
    /\ deltasRead = 0
    /\ attempts = << >>
    /\ citations = << >>
    /\ assistantMessage = Undefined

CiteSpec == CiteInit /\ [][Persist]_vars

\* An awaited call inside the try block rejects although its contract is
\* to resolve: the exception reaches the catch of line 745.
AwaitPoints ==
    {"start", "save_user", "history", "route", "shortcut", "rewrite", "search",
     "no_sources", "grade_chunks", "abstain", "grade_answer", "persist", "audit"}
UncaughtThrow ==
    /\ pc \in AwaitPoints
    /\ trace' = Catch(trace)
    /\ pc' = "closed"
    /\ UNCHANGED <<config, messages, routing, retrieval, generation>>

Next ==
    \/ CreateConversation
    \/ UseConversation
    \/ SaveUserMessage
    \/ FetchHistory
    \/ RouteQuery
    \/ Shortcut
    \/ Rewrite
    \/ Expand
    \/ Embed
    \/ Search
    \/ NoSources
    \/ GradeChunks
    \/ Abstain
    \/ GenFetch
    \/ GenDelta
    \/ GenReadError
    \/ GenComplete
    \/ GradeAnswer
    \/ Persist
    \/ AuditAndDone

Spec == Init /\ [][Next]_vars

\* The same handler when any awaited call may also reject.
NextThrow == Next \/ UncaughtThrow
SpecThrow == Init /\ [][NextThrow]_vars

\* With the handler scheduled until it returns: the event loop runs every
\* continuation whose awaited call has settled.
LiveSpec == SpecThrow /\ WF_vars(NextThrow)

\* ------------------------------------------------- the caller goes away
\* The caller closes the connection while the handler runs.  The handler
\* registers no 'close' listener and passes no signal to fetch (lines
\* 72-88, 238-253), and a write to a closed response does not throw: none
\* of its variables changes and it runs on.
Disconnect ==
    /\ connected
    /\ pc # "closed"
    /\ connected' = FALSE
    /\ UNCHANGED <<pc, body, fallbackModel, pieces, returned, messages, trace,
                   routing, retrieval, generation>>

NextDisconnect == Next \/ Disconnect
SpecDisconnect == Init /\ [][NextDisconnect]_vars

\* ------------------------------------------- a call that never responds
\* The awaits on a fetch or on a read of its body: lines 72 and 101
\* (generateSearchQueriesStream), 238 and 265 (streamChatCompletion).
FetchPoints == {"expand", "gen_fetch", "gen_read"}

\* The upstream service accepts the request and never answers.  fetch is
\* called without a signal and no timer is set, so the await never settles
\* and the handler stays where it is.
NeverResponds ==
    /\ pc \in FetchPoints
    /\ pc' = "pending"
    /\ UNCHANGED <<config, messages, trace, routing, retrieval, generation>>

NextUnresponsive == Next \/ NeverResponds
SpecUnresponsive ==
    Init /\ [][NextUnresponsive]_vars /\ WF_vars(NextUnresponsive)

\* ----------------------------------------- one generation attempt's stream
\* Data lines of one response.
MaxStreamed == 3
\* Parsed data lines: content only, reasoning only, both, neither.
StreamDeltas ==
    {[reasoning |-> "", content |-> <<"a">>],
     [reasoning |-> "", content |-> <<"b">>],
     [reasoning |-> "r", content |-> EmptyText],
     [reasoning |-> "r", content |-> <<"c">>],
     [reasoning |-> "", content |-> EmptyText]}

\* The first request of the first generator call has been answered with
\* 2xx; the data lines the provider will send are drawn beforehand.
StreamInit ==
    /\ pc = "gen_read"
    /\ body = [conversation_id |-> Undefined, query |-> Query]
    /\ fallbackModel = ""
    /\ connected = TRUE
    /\ pieces = << >>
    /\ \E n \in 0..MaxStreamed : returned \in [1..n -> StreamDeltas]
    /\ messages = << >>
    /\ trace = << >>
    /\ conversationId = "c_new"
    /\ conversationHistory = << >>
    /\ routerResult = [intent |-> "lookup", skipRetrieval |-> FALSE,
                       suggestedResponse |-> None]
    /\ retrievalParams = [chunkCount |-> 1, expansionQueries |-> 0]
    /\ effectiveQuery = Query
    /\ searchQueries = <<Query>>
    /\ i = 0
    /\ allResults = << >>
    /\ chunks = << >>
    /\ cragResult = [decision |-> "", relevantChunks |-> << >>]
    /\ sources = << >>
    /\ answer = EmptyText
    /\ model = ""
    /\ retryCount = 0
    /\ attempt = 0
    /\ currentModel = PrimaryModel
    /\ fullAnswer = EmptyText
    /\ deltasRead = 0
    /\ attempts = <<[invocation |-> 0, model |-> PrimaryModel,
                     outcome |-> "streaming", content |-> EmptyText]>>
    /\ citations = << >>
    /\ assistantMessage = Undefined

\* reader.read() delivers the next data line, or reports the end.
StreamDelta == deltasRead < Len(returned) /\ GenDeltaWith(returned[deltasRead + 1])
StreamComplete == deltasRead = Len(returned) /\ GenComplete

StreamNext == StreamDelta \/ StreamComplete
StreamSpec == StreamInit /\ [][StreamNext]_vars

\* ------------------------------------------ the rewriter's result drawn
\* A request on a supplied conversation, from the router on, with the
\* history found or not and the result of rewriteQueryWithContext drawn
\* beforehand.
RewriteInit ==
    /\ pc = "route"
    /\ body = [conversation_id |-> "c1", query |-> Query]
    /\ fallbackModel = ""
    /\ connected = TRUE
    /\ pieces = << >>
    /\ \E rw \in RewriteResults : returned = <<rw>>
    /\ messages = <<[role |-> "user", content |-> Query]>>
    /\ trace = << >>
    /\ conversationId = "c1"
    /\ conversationHistory \in {<< >>, <<[role |-> "user", content |-> Query]>>}
    /\ routerResult = [intent |-> "", skipRetrieval |-> FALSE, suggestedResponse |-> None]
    /\ retrievalParams = [chunkCount |-> 0, expansionQueries |-> 0]
    /\ effectiveQuery = Query
    /\ searchQueries = << >>
    /\ i = 0
    /\ allResults = << >>
    /\ chunks = << >>
    /\ cragResult = [decision |-> "", relevantChunks |-> << >>]
    /\ sources = << >>
    /\ answer = EmptyText
    /\ model = ""
    /\ retryCount = 0
    /\ attempt = 0
    /\ currentModel = ""
    /\ fullAnswer = EmptyText
    /\ deltasRead = 0
    /\ attempts = << >>
    /\ citations = << >>
    /\ assistantMessage = Undefined

RewriteDrawn == pc = "rewrite" /\ RewriteWith(returned[1])

RewriteNext ==
    \/ RouteQuery
    \/ Shortcut
    \/ RewriteDrawn
    \/ Expand
    \/ Embed
    \/ Search
    \/ NoSources
    \/ GradeChunks
    \/ Abstain
    \/ GenFetch
    \/ GenDelta
    \/ GenReadError
    \/ GenComplete
    \/ GradeAnswer
    \/ Persist
    \/ AuditAndDone

RewriteSpec == RewriteInit /\ [][RewriteNext]_vars

\* ======================================================== properties
Idx == 1..Len(trace)
EventIdx(type) == {k \in Idx : trace[k].kind = "event" /\ trace[k].type = type}
CallIdx(op) == {k \in Idx : trace[k].kind = "call" /\ trace[k].type = op}
EndIdx == {k \in Idx : trace[k].kind = "end"}
TerminalIdx == EventIdx("done") \cup EventIdx("error")
InsertIdx(role) == {k \in CallIdx("insert_message") : trace[k].payload.role = role}

RetrievalOps == {"generateSearchQueriesStream", "embed", "hybrid_search"}
GradingOps == {"gradeChunksRelevance"}
GenerationOps == {"streamChatCompletion", "chat_completions", "gradeAnswer"}
StageOps == {"routeQuery", "getAdaptiveRetrievalParams", "rewriteQueryWithContext"}
            \cup RetrievalOps \cup GradingOps \cup GenerationOps
NoCall(ops) == \A op \in ops : CallIdx(op) = {}
NoEvent(types) == \A type \in types : EventIdx(type) = {}

\* The request ended with exactly one done event carrying this answer and
\* no citations, and with no error event.
EndsWithCannedDone(text) ==
    /\ EventIdx("error") = {}
    /\ Cardinality(EventIdx("done")) = 1
    /\ \A k \in EventIdx("done") :
          trace[k].payload.answer = text /\ trace[k].payload.citations = << >>

ConversationFailed ==
    \E k \in CallIdx("insert_conversation") : trace[k].payload = "error"
EmbedThrew ==
    pc = "closed" /\ CallIdx("embed") # {} /\ CallIdx("hybrid_search") = {}
GenerationFailed ==
    pc = "closed" /\ attempts # << >> /\ attempts[Len(attempts)].outcome = "failed"

\* C1: whatever the collaborators do (return, return an error, throw), at
\* most one terminal event (done or error) is written, and no event is
\* written after the terminal event or after the stream has been ended.
C1_AtMostOneTerminalEvent ==
    /\ Cardinality(TerminalIdx) <= 1
    /\ \A k \in TerminalIdx \cup EndIdx :
          \A j \in Idx : j > k => trace[j].kind # "event"

\* Tokens were streamed, then the generation failed and error was sent.
C1_Witness ==
    pc = "closed" /\ EventIdx("token") # {} /\ EventIdx("error") # {}

\* C2: every request eventually has written exactly one terminal event and
\* then ended the stream, and the stream is never ended with no terminal
\* event before it.
C2_TerminalEventThenEnd ==
    /\ <>(/\ pc = "closed"
          /\ Cardinality(TerminalIdx) = 1
          /\ \A k \in TerminalIdx : \E e \in EndIdx : k < e)
    /\ [](\A e \in EndIdx : \E k \in TerminalIdx : k < e)

\* A request that regenerated its answer, sent done and ended the stream.
C2_Witness ==
    pc = "closed" /\ retryCount = 1 /\ EventIdx("done") # {} /\ EndIdx # {}

\* C3: for a router result with skipRetrieval = true, whatever its
\* suggestedResponse, no expansion, embedding, search, chunk-grading,
\* generation or answer-grading call is made and done.answer is the
\* suggestedResponse.
C3_SkipRetrievalShortCircuits ==
    routerResult.skipRetrieval =>
        /\ NoCall(RetrievalOps \cup GradingOps \cup GenerationOps)
        /\ \A k \in EventIdx("done") :
              Some(trace[k].payload.answer) = routerResult.suggestedResponse

\* C4: after the chunk grader returned no_relevant_sources no token event
\* is written, no generation or answer-grading call is made, and the
\* request ends with done (not error) carrying the abstention answer and
\* no citations.
C4_AbstentionEndsWithDone ==
    cragResult.decision = "no_relevant_sources" =>
        /\ NoEvent({"token", "error"})
        /\ NoCall(GenerationOps)
        /\ pc \in {"abstain", "closed"}
        /\ pc = "abstain" => ENABLED Abstain
        /\ pc = "closed" => EndsWithCannedDone(NoRelevantResponse)

C4_Witness ==
    pc = "closed" /\ cragResult.decision = "no_relevant_sources"

\* Every query variant has been searched and the merged result is empty.
RetrievedNothing ==
    /\ searchQueries # << >>
    /\ Cardinality(CallIdx("hybrid_search")) = Len(searchQueries)
    /\ chunks = << >>

\* C5: when the merged retrieval result is empty, no chunk-grading,
\* generation or answer-grading call is made, no sources, grading or token
\* event is written, and the request ends with done carrying the
\* no-information answer and no citations.
C5_NoSourcesEndsWithDone ==
    RetrievedNothing =>
        /\ NoCall(GradingOps \cup GenerationOps)
        /\ NoEvent({"sources", "grading", "token", "error"})
        /\ pc \in {"no_sources", "closed"}
        /\ pc = "no_sources" => ENABLED NoSources
        /\ pc = "closed" => EndsWithCannedDone(NoSourcesResponse)

\* Two variants were searched, one search failed, nothing was retrieved.
C5_Witness ==
    pc = "closed" /\ RetrievedNothing /\ Len(searchQueries) = 2

\* C6: a request never inserts more than one user and one assistant
\* message; when done is written exactly one of each has been inserted,
\* the user message before any pipeline stage was called and the assistant
\* message before done and before the stream was ended.  (An insert counts
\* once the store has answered it; the handler ignores the answer.)
C6_OneUserOneAssistantMessage ==
    /\ Cardinality(InsertIdx("user")) <= 1
    /\ Cardinality(InsertIdx("assistant")) <= 1
    /\ \A d \in EventIdx("done") :
          /\ Cardinality(InsertIdx("user")) = 1
          /\ Cardinality(InsertIdx("assistant")) = 1
          /\ \A u \in InsertIdx("user") :
                \A op \in StageOps : \A k \in CallIdx(op) : u < k
          /\ \A a \in InsertIdx("assistant") :
                a < d /\ \A e \in EndIdx : a < e

\* done after a regeneration, on the full generation path.
C6_Witness ==
    /\ pc = "closed" /\ retryCount = 1 /\ EventIdx("done") # {}
    /\ Cardinality(CallIdx("streamChatCompletion")) = 2

\* C7: when the generator fails with no fallback left, error is written
\* and done is not, the user message has been inserted and no assistant
\* message is.
C7_FatalGenerationFailure ==
    GenerationFailed =>
        /\ Cardinality(EventIdx("error")) = 1
        /\ EventIdx("done") = {}
        /\ Cardinality(InsertIdx("user")) = 1
        /\ InsertIdx("assistant") = {}

\* The primary failed and the fallback, distinct from it, failed too.
C7_Witness ==
    /\ GenerationFailed
    /\ Len(attempts) = 2
    /\ attempts[1].model # attempts[2].model

\* C8: when creating the conversation fails, exactly one error event is
\* written and no done, no message is inserted and no pipeline stage is
\* called.
C8_ConversationFailure ==
    ConversationFailed =>
        /\ pc = "closed"
        /\ Cardinality(EventIdx("error")) = 1
        /\ EventIdx("done") = {}
        /\ CallIdx("insert_message") = {}
        /\ NoCall(StageOps)

C8_Witness == pc = "closed" /\ ConversationFailed

\* The answer grader was called and returned the grade of a failed call.
GradingDegraded ==
    \E k \in CallIdx("gradeAnswer") : trace[k].payload.shouldRetry = GradeFallback

PrimaryFailsFallbackSucceeds ==
    /\ pc = "closed"
    /\ fallbackModel \notin {"", PrimaryModel}
    /\ attempts # << >>
    /\ \A k \in 1..Len(attempts) :
          /\ attempts[k].model = PrimaryModel => attempts[k].outcome = "failed"
          /\ attempts[k].model = fallbackModel =>
                attempts[k].outcome = "ok" /\ attempts[k].content # EmptyText

\* The model switches: consecutive requests of one generator call that name
\* different models.
SwitchIdx ==
    {k \in 2..Len(attempts) :
        /\ attempts[k].invocation = attempts[k - 1].invocation
        /\ attempts[k].model # attempts[k - 1].model}
AttemptsOf(invocation) ==
    {k \in 1..Len(attempts) : attempts[k].invocation = invocation}
NonEmptyDone ==
    /\ Cardinality(EventIdx("done")) = 1
    /\ \A k \in EventIdx("done") : trace[k].payload.answer # EmptyText

\* C10 as claimed: with a primary that always fails and a distinct fallback
\* that always succeeds, the whole request has exactly one model switch, at
\* most 2 generation requests and a non-empty done.answer, also when the
\* first answer is graded shouldRetry = true.
C10_OneSwitchPerRequest ==
    PrimaryFailsFallbackSucceeds =>
        /\ Cardinality(SwitchIdx) = 1
        /\ Len(attempts) <= maxAttempts
        /\ NonEmptyDone

\* C10 as amended: with a primary that always fails and a distinct fallback
\* that always succeeds, every generator call makes exactly one model
\* switch and 2 requests and done.answer is non-empty; the request has one
\* generator call, or two when the first answer is graded shouldRetry =
\* true, hence one or two switches and 2 or 4 requests.
C10_OneSwitchPerGeneratorCall ==
    PrimaryFailsFallbackSucceeds =>
        /\ \A inv \in 0..retryCount :
              /\ Cardinality(AttemptsOf(inv)) = maxAttempts
              /\ Cardinality(SwitchIdx \cap AttemptsOf(inv)) = 1
        /\ retryCount <= MAX_ANSWER_RETRIES
        /\ Cardinality(SwitchIdx) = 1 + retryCount
        /\ Len(attempts) = maxAttempts * (1 + retryCount)
        /\ NonEmptyDone

\* The first answer was graded shouldRetry = true and regenerated.
C10_Witness ==
    PrimaryFailsFallbackSucceeds /\ retryCount = 1

\* The grade of the first answer asked for a retry.
RetryGraded == \E g \in CallIdx("gradeAnswer") : trace[g].payload.shouldRetry

\* C11: when the first answer is graded shouldRetry = true the generator is
\* called exactly once more, with the same sources and effective query, and
\* the answer persisted as the assistant message, returned in done.answer
\* and scanned for citations is the answer of that second call.
C11_SecondAnswerIsReturned ==
    RetryGraded =>
        /\ retryCount = 1
        /\ Cardinality(CallIdx("streamChatCompletion")) = 2
        /\ \A j, k \in CallIdx("streamChatCompletion") :
              trace[j].payload = trace[k].payload
        /\ \A d \in EventIdx("done") :
              /\ attempts[Len(attempts)].invocation = 1
              /\ attempts[Len(attempts)].outcome = "ok"
              /\ trace[d].payload.answer = attempts[Len(attempts)].content
              /\ trace[d].payload.citations =
                    extractCitations(attempts[Len(attempts)].content, sources)
              /\ \A a \in InsertIdx("assistant") :
                    trace[a].payload.content = attempts[Len(attempts)].content

\* done after a regeneration whose answer differs from the graded one.
C11_Witness ==
    /\ pc = "closed"
    /\ \E d \in EventIdx("done") : \E g \in CallIdx("gradeAnswer") :
          /\ trace[g].payload.shouldRetry
          /\ trace[g].payload.answer # trace[d].payload.answer
          /\ trace[d].payload.answer # EmptyText

\* The numbers of the markers that name a source, each at its first
\* occurrence, in the order of the answer.
CitedNumbers(ps, count) ==
    LET first == {k \in 1..Len(ps) :
                    /\ ps[k].n >= 1 /\ ps[k].n <= count
                    /\ \A j \in 1..(k - 1) : ps[j].n # ps[k].n}
        kept == Indices(ps, first)
    IN  [k \in 1..Len(kept) |-> kept[k].n]

\* C12: extractCitations(answer, sources) returns one citation for each
\* distinct marker number N with 1 <= N <= |sources| in the answer, in the
\* order of first occurrence, each built from sources[N-1] (1-based here:
\* sources[N]); repeated markers give one citation, and markers with N = 0
\* or N > |sources| give none.
C12_CitationsOfValidMarkers ==
    (pc = "audit" /\ answer = JoinPieces(pieces)) =>
        /\ Len(citations) = Len(CitedNumbers(pieces, Len(sources)))
        /\ \A k \in 1..Len(citations) :
              /\ citations[k].chunk_id = sources[CitedNumbers(pieces, Len(sources))[k]].id
              /\ citations[k] = CitationOf(sources[CitedNumbers(pieces, Len(sources))[k]])

\* Markers 1 and 3 with 2 sources: only the citation of source 1.
C12_Witness ==
    /\ pc = "audit"
    /\ Len(sources) = 2
    /\ \E j, k \in 1..Len(pieces) : pieces[j].n = 1 /\ pieces[k].n = 3
    /\ Len(citations) = 1
    /\ citations[1].chunk_id = sources[1].id

\* multiQuerySearch has returned.
FusionDone == returned # << >> /\ pc \in {"no_sources", "grade_chunks"}
RowsCarryId ==
    \A r \in 1..Len(returned) : \A k \in 1..Len(returned[r].data) :
        returned[r].data[k].id # Undefined
Reverse(s) == [k \in 1..Len(s) |-> s[Len(s) + 1 - k]]
Entries(cs) ==
    {[chunk_id |-> cs[k].chunk_id, similarity |-> cs[k].similarity,
      queryCount |-> cs[k].queryCount] : k \in 1..Len(cs)}

\* C13: for two query variants A and B and any search results (equal
\* similarity scores and more distinct chunks than chunkCount included),
\* multiQuerySearch over [A,B] and over [B,A] return the same set of chunks
\* with the same similarity and queryCount for each.  Stated for rows that
\* carry the id the merge is keyed by.
C13_FusionCommutes ==
    (FusionDone /\ Len(returned) = 2 /\ RowsCarryId) =>
        Entries(chunks) =
            Entries(multiQuerySearch(Reverse(returned), retrievalParams.chunkCount))

\* The variants among the first n whose search succeeded and returned chunk.
Hits(chunk, n) ==
    {r \in 1..n : /\ ~returned[r].error
                  /\ \E k \in 1..Len(returned[r].data) :
                        returned[r].data[k].chunk_id = chunk}
ScoreOf(chunk, r) ==
    IF r \in Hits(chunk, r)
    THEN LET k == CHOOSE x \in 1..Len(returned[r].data) :
                      returned[r].data[x].chunk_id = chunk
         IN  returned[r].data[k].similarity
    ELSE 0
RECURSIVE SumScores(_, _)
SumScores(chunk, n) ==
    IF n = 0 THEN 0 ELSE SumScores(chunk, n - 1) + ScoreOf(chunk, n)

\* C19: after multiQuerySearch has merged the results of all successful
\* variants, every chunk's similarity is the arithmetic mean of all scores
\* returned for it (similarity times the number of hits is their sum, for
\* three hits as for two), and its queryCount is the number of variants
\* that returned it.  Stated for rows that carry the id the merge is keyed
\* by.
C19_SimilarityIsMeanOfScores ==
    (FusionDone /\ RowsCarryId) =>
        \A k \in 1..Len(chunks) :
            LET chunk == chunks[k].chunk_id
                hits == Cardinality(Hits(chunk, Len(returned)))
            IN  /\ chunks[k].queryCount = hits
                /\ chunks[k].similarity * hits = SumScores(chunk, Len(returned))

\* The chunk identifiers returned by the successful variants among the
\* first n.
ReturnedChunkIds(n) ==
    UNION {{returned[r].data[k].chunk_id : k \in 1..Len(returned[r].data)} :
              r \in {x \in 1..n : ~returned[x].error}}

\* C20: the merge is keyed by the chunk identifier that is later reported
\* as a citation's chunk_id: rows with different chunk identifiers are
\* never merged and rows with the same identifier always are, so the merged
\* set, before it is sorted and cut, has exactly one entry per distinct
\* chunk identifier returned so far.
C20_OneEntryPerChunkId ==
    (returned # << >> /\ pc = "search") =>
        /\ {allResults[k].chunk_id : k \in 1..Len(allResults)} = ReturnedChunkIds(i - 1)
        /\ Len(allResults) = Cardinality(ReturnedChunkIds(i - 1))

\* C14: once the caller has disconnected, no further message is persisted,
\* no further event is written and no further upstream call is started:
\* the only thing the handler may still do is close the stream.
C14_NothingAfterDisconnect ==
    [][~connected =>
          /\ messages' = messages
          /\ \A k \in (Len(trace) + 1)..Len(trace') : trace'[k].kind = "end"]_vars

\* C15: a request whose upstream call never responds still reaches a
\* terminal event (done or error).
C15_UnresponsiveCallEndsRequest == (pc = "pending") ~> (TerminalIdx # {})

\* Every event of type a is sent before every event of type b.
Before(a, b) == \A x \in EventIdx(a), y \in EventIdx(b) : x < y
ProgressEvents ==
    {"status", "routing", "rewriting", "queries", "sources", "grading",
     "thinking", "token", "reflection"}
\* The tokens of the first generation precede the reflection event; a token
\* after it belongs to the regeneration, whose call follows the event.
FirstTokensBeforeReflection ==
    \A t \in EventIdx("token"), r \in EventIdx("reflection") :
        t < r \/ \E c \in CallIdx("streamChatCompletion") : r < c /\ c < t
OrderExceptSources ==
    /\ Before("routing", "rewriting")
    /\ Before("rewriting", "queries")
    /\ Before("queries", "sources")
    /\ Before("grading", "token")
    /\ FirstTokensBeforeReflection
    /\ \A type \in ProgressEvents : Before(type, "done")

\* C16: the events of a request respect the protocol order: routing,
\* rewriting, queries, sources, grading, the tokens of the first
\* generation, reflection, done; in particular sources is sent before
\* grading whenever both are sent.
C16_ProtocolOrder == OrderExceptSources /\ Before("sources", "grading")

\* The first request of a generator call, and whether a fallback is
\* configured that differs from the primary model.
FirstOf(invocation) ==
    CHOOSE k \in AttemptsOf(invocation) : \A j \in AttemptsOf(invocation) : k <= j
FallbackApplies == fallbackModel # "" /\ fallbackModel # PrimaryModel
\* The catch has switched the model and the second request is about to be
\* sent.
AwaitingRetry(invocation) ==
    pc = "gen_fetch" /\ retryCount = invocation /\ attempt = 1
\* The failure of request k left streamChatCompletion: no request follows
\* it and the handler ended with an error event.
Propagated(k) ==
    /\ k = Len(attempts)
    /\ pc = "closed"
    /\ EventIdx("error") # {}
    /\ EventIdx("done") = {}

\* C17: within one invocation of streamChatCompletion at most 2 requests
\* are made and at most one model switch occurs; a failed first request is
\* retried exactly once, with the fallback model, if and only if a fallback
\* is configured and differs from the primary; a failed first request with
\* no such fallback, and any failed second request, is propagated without
\* further retry; on success the returned model is the model of the
\* request that produced the answer.
C17_AttemptsOfOneInvocation ==
    /\ \A inv \in 0..MAX_ANSWER_RETRIES :
          AttemptsOf(inv) # {} =>
            LET first == FirstOf(inv)
                n == Cardinality(AttemptsOf(inv))
            IN  /\ n <= maxAttempts
                /\ AttemptsOf(inv) = first..(first + n - 1)
                /\ Cardinality(SwitchIdx \cap AttemptsOf(inv)) <= 1
                /\ attempts[first].model = PrimaryModel
                /\ attempts[first].outcome # "failed" => n = 1
                /\ attempts[first].outcome = "failed" =>
                      IF FallbackApplies
                      THEN \/ n = 2 /\ attempts[first + 1].model = fallbackModel
                           \/ n = 1 /\ AwaitingRetry(inv)
                      ELSE n = 1 /\ Propagated(first)
                /\ (n = 2 /\ attempts[first + 1].outcome = "failed") =>
                      Propagated(first + 1)
    /\ (attempts # << >> /\ attempts[Len(attempts)].outcome = "ok") =>
          /\ model = attempts[Len(attempts)].model
          /\ answer = attempts[Len(attempts)].content

\* A generator call whose first request failed and whose second request,
\* to the fallback model, produced the answer of a finished request.
C17_Witness ==
    /\ pc = "closed"
    /\ EventIdx("done") # {}
    /\ Len(attempts) = 2
    /\ attempts[1].outcome = "failed"
    /\ attempts[2].outcome = "ok"
    /\ attempts[2].model = fallbackModel
    /\ model = fallbackModel

\* The answers the first generator call returned.
FirstAnswers ==
    {attempts[k].content : k \in {j \in AttemptsOf(0) : attempts[j].outcome = "ok"}}

\* C18: gradeAnswer is called at most once per request, only on the answer
\* of the first generation and only if that answer is longer than 50
\* characters; the regenerated answer is never graded; at most one
\* reflection event is sent; and the generator is called at most
\* 1 + MAX_ANSWER_RETRIES = 2 times whatever the grades.
C18_GradedOnceFirstAnswerOnly ==
    /\ Cardinality(CallIdx("gradeAnswer")) <= 1
    /\ \A g \in CallIdx("gradeAnswer") :
          /\ trace[g].payload.answer \in FirstAnswers
          /\ Len(trace[g].payload.answer) > MinGradedLength
          /\ Cardinality({c \in CallIdx("streamChatCompletion") : c < g}) = 1
    /\ Cardinality(EventIdx("reflection")) <= 1
    /\ Cardinality(CallIdx("streamChatCompletion")) <= 1 + MAX_ANSWER_RETRIES
    /\ retryCount <= MAX_ANSWER_RETRIES

\* A finished request whose first answer was graded and regenerated, and
\* whose second answer is long enough to be graded but was not.
C18_Witness ==
    /\ pc = "closed"
    /\ Cardinality(CallIdx("streamChatCompletion")) = 2
    /\ Cardinality(CallIdx("gradeAnswer")) = 1
    /\ \E d \in EventIdx("done") : Len(trace[d].payload.answer) > MinGradedLength

\* C21: the list multiQuerySearch returns is sorted in non-increasing order
\* of merged similarity, has at most chunkCount elements, and consists of
\* the chunkCount highest-scoring entries of the merged set (all of them
\* when the merged set is smaller).
C21_SortedTopChunkCount ==
    FusionDone =>
        LET merged == multiQueryMerge(returned) IN
        /\ \A k \in 1..(Len(chunks) - 1) :
              chunks[k].similarity >= chunks[k + 1].similarity
        /\ Len(chunks) = Min(retrievalParams.chunkCount, Len(merged))
        /\ Cardinality(Range(chunks)) = Len(chunks)
        /\ Range(chunks) \subseteq Range(merged)
        /\ \A m \in Range(merged) \ Range(chunks), c \in Range(chunks) :
              m.similarity <= c.similarity

\* More chunks were merged than are returned, and the best one was not the
\* first to be merged.
C21_Witness ==
    /\ FusionDone
    /\ Len(multiQueryMerge(returned)) > Len(chunks)
    /\ chunks # << >>
    /\ chunks[1].chunk_id # multiQueryMerge(returned)[1].chunk_id
    /\ chunks[1].similarity > multiQueryMerge(returned)[1].similarity

\* The results of the variants whose search succeeded, in query order.
Succeeded == SelectSeq(returned, LAMBDA r : ~r.error)
RECURSIVE MergeAll(_)
MergeAll(results) ==
    IF results = << >> THEN << >>
    ELSE MergeRows(MergeAll(SubSeq(results, 1, Len(results) - 1)),
                   results[Len(results)].data)

\* C22: a failed hybrid-search call of one variant contributes nothing; the
\* searches of all other variants are still issued and merged (the result
\* is that of the successful variants alone), and the failure produces no
\* error event.
C22_FailedSearchIsSkipped ==
    /\ (returned # << >> /\ pc = "search") =>
          /\ Cardinality(CallIdx("hybrid_search")) = i - 1
          /\ allResults = MergeAll(SelectSeq(SubSeq(returned, 1, i - 1),
                                             LAMBDA r : ~r.error))
    /\ FusionDone =>
          /\ Cardinality(CallIdx("hybrid_search")) = Len(searchQueries)
          /\ \A k \in 1..Len(searchQueries) :
                \E c \in CallIdx("hybrid_search") : trace[c].payload = searchQueries[k]
          /\ chunks = TopResults(MergeAll(Succeeded), retrievalParams.chunkCount)
          /\ EventIdx("error") = {}

\* The first search failed and a later one returned the chunks.
C22_Witness ==
    /\ FusionDone
    /\ returned[1].error
    /\ \E r \in 2..Len(returned) : ~returned[r].error /\ returned[r].data # << >>
    /\ chunks # << >>

\* generateSearchQueriesStream has returned and the queries event is sent.
ExpanderDone == returned # << >> /\ pc = "embed"
\* No part of the model output is a JSON array of strings.
NoJsonArrayIn(content) ==
    \A a, b \in 1..Len(content) : a <= b => ~IsJsonArray(SubSeq(content, a, b))

\* C23: the search-query list has the effective query as element 0 and at
\* most expansionQueries further elements; on a non-2xx response, a
\* transport error or unparseable model output it is exactly
\* [effectiveQuery]; no expander failure produces an error event.
C23_ExpanderListShape ==
    ExpanderDone =>
        /\ Len(searchQueries) >= 1
        /\ searchQueries[1] = effectiveQuery
        /\ Len(searchQueries) <= 1 + retrievalParams.expansionQueries
        /\ (\/ returned[1].kind \in {"throw", "http_error", "read_error"}
            \/ NoJsonArrayIn(returned[1].content)) =>
               searchQueries = <<effectiveQuery>>
        /\ \A q \in EventIdx("queries") : trace[q].payload = searchQueries
        /\ Cardinality(EventIdx("queries")) = 1
        /\ EventIdx("error") = {}

\* The model returned two variants and one was asked for.
C23_Witness ==
    /\ ExpanderDone
    /\ returned[1] = [kind |-> "body", content |-> <<"[", "s:v", ",", "s:w", "]">>]
    /\ retrievalParams.expansionQueries = 1
    /\ searchQueries = <<effectiveQuery, Variant>>

\* C24: the search-query list passed to the retriever and sent in the
\* queries event has no duplicate strings, also when the model returns a
\* variant equal to the effective query or the same variant twice.
C24_NoDuplicateQueries ==
    ExpanderDone =>
        \A j, k \in 1..Len(searchQueries) :
            j # k => searchQueries[j] # searchQueries[k]

\* The first bracketed array of the model output: from the first "[" to the
\* first "]" after it.
FirstArray(content) ==
    LET opens == {k \in 1..Len(content) : content[k] = "["} IN
    IF opens = {} THEN << >>
    ELSE LET f == CHOOSE k \in opens : \A j \in opens : k <= j
             after == {k \in (f + 1)..Len(content) : content[k] = "]"}
         IN  IF after = {} THEN << >>
             ELSE SubSeq(content, f, CHOOSE k \in after : \A j \in after : k <= j)
\* A "]" follows the first array.
BracketAfterFirstArray(content) ==
    Cardinality({k \in 1..Len(content) : content[k] = "]"}) >= 2

\* C25: when the model output holds a valid JSON array of strings followed
\* by further text with another "]" (a second array, say), the variants of
\* the first array are used and the list does not degrade to
\* [effectiveQuery].
C25_FirstArrayIsUsed ==
    (/\ ExpanderDone
     /\ returned[1].kind = "body"
     /\ IsJsonArray(FirstArray(returned[1].content))
     /\ BracketAfterFirstArray(returned[1].content)) =>
        LET variants == ParsedArray(FirstArray(returned[1].content)) IN
        searchQueries =
            <<effectiveQuery>> \o
            SubSeq(variants, 1, Min(retrievalParams.expansionQueries, Len(variants)))

\* The history has been fetched and is, or may be, handed to the router and
\* the rewriter; no answer has been stored yet.
HistoryInUse == pc \in {"route", "rewrite", "expand", "shortcut"}
\* The messages the conversation held before this request stored its
\* question.
UserInsertOk == \E k \in InsertIdx("user") : trace[k].payload.ok
PriorToRequest ==
    IF UserInsertOk THEN SubSeq(messages, 1, Len(messages) - 1) ELSE messages

\* C26: for a conversation with more than 10 stored messages the history
\* handed to the router and the rewriter is the 10 most recent messages in
\* chronological order (most recent last), not the 10 oldest.
C26_HistoryIsMostRecent ==
    (/\ HistoryInUse
     /\ Len(PriorToRequest) > HistoryLimit
     /\ conversationHistory # << >>) =>
        conversationHistory =
            SubSeq(PriorToRequest, Len(PriorToRequest) - HistoryLimit + 1,
                   Len(PriorToRequest))

\* C27: the history handed to the router and the rewriter holds only
\* messages stored before this request's question; for a supplied
\* conversation with no earlier messages it is empty and the rewriter is
\* not called.
C27_HistoryExcludesQuestion ==
    HistoryInUse =>
        /\ Range(conversationHistory) \subseteq Range(PriorToRequest)
        /\ PriorToRequest = << >> =>
              /\ conversationHistory = << >>
              /\ pc # "rewrite"
              /\ CallIdx("rewriteQueryWithContext") = {}

\* The query handed to the expander, the chunk grader, the generator and
\* the answer grader.
QueryUses ==
    CallIdx("generateSearchQueriesStream") \cup CallIdx("gradeChunksRelevance")
    \cup CallIdx("streamChatCompletion") \cup CallIdx("gradeAnswer")
QueryPassed(k) ==
    IF trace[k].type = "streamChatCompletion" THEN trace[k].payload.userMessage
    ELSE IF trace[k].type = "gradeAnswer" THEN trace[k].payload.query
    ELSE trace[k].payload
\* The rewriter was called and returned needsContext = true with a
\* rewritten query that differs from the question.
RewriteApplies ==
    /\ CallIdx("rewriteQueryWithContext") # {}
    /\ returned[1].needsContext
    /\ returned[1].rewritten # body.query
ExpectedQuery == IF RewriteApplies THEN returned[1].rewritten ELSE body.query

\* C28: the effective query used for expansion, chunk grading, generation
\* and answer grading is the rewritten query if and only if the rewriter
\* was called and returned needsContext = true with a rewritten query that
\* differs from the question, and the question otherwise; a rewriting
\* event is sent exactly when the effective query differs from the
\* question.
C28_EffectiveQuery ==
    /\ pc # "rewrite" => effectiveQuery = ExpectedQuery
    /\ \A k \in QueryUses : QueryPassed(k) = ExpectedQuery
    /\ pc # "rewrite" =>
          /\ EventIdx("rewriting") # {} <=> effectiveQuery # body.query
          /\ Cardinality(EventIdx("rewriting")) <= 1
          /\ \A e \in EventIdx("rewriting") :
                trace[e].payload = [original |-> body.query, rewritten |-> effectiveQuery]

\* A finished request whose answer was generated and graded for the
\* rewritten query.
C28_Witness ==
    /\ pc = "closed"
    /\ EventIdx("done") # {}
    /\ RewriteApplies
    /\ effectiveQuery = RewrittenQuery
    /\ \E g \in CallIdx("gradeAnswer") : trace[g].payload.query = RewrittenQuery

\* Every call of operation a is made before every call of operation b.
CallsBefore(a, b) == \A x \in CallIdx(a), y \in CallIdx(b) : x < y
\* The order of the stages apart from the place of the retrieval planner:
\* route, rewrite, expand, retrieve, grade, generate and reflect, persist.
StageOrderExceptPlanner ==
    /\ CallsBefore("routeQuery", "rewriteQueryWithContext")
    /\ CallsBefore("routeQuery", "getAdaptiveRetrievalParams")
    /\ CallsBefore("rewriteQueryWithContext", "generateSearchQueriesStream")
    /\ CallsBefore("getAdaptiveRetrievalParams", "generateSearchQueriesStream")
    /\ CallsBefore("generateSearchQueriesStream", "embed")
    /\ CallsBefore("embed", "hybrid_search")
    /\ CallsBefore("hybrid_search", "gradeChunksRelevance")
    /\ CallsBefore("gradeChunksRelevance", "streamChatCompletion")
    /\ \A g \in CallIdx("gradeAnswer") :
          \E c \in CallIdx("streamChatCompletion") : c < g
    /\ \A a \in InsertIdx("assistant") :
          \A c \in CallIdx("routeQuery") \cup CallIdx("chat_completions")
                    \cup CallIdx("gradeAnswer") : c < a

\* C29: the stages are invoked in the fixed order route, rewrite, plan,
\* expand, retrieve, grade, generate/reflect, cite, persist; in particular
\* the rewriter is invoked before the retrieval planner.
C29_StageOrder ==
    /\ StageOrderExceptPlanner
    /\ CallsBefore("rewriteQueryWithContext", "getAdaptiveRetrievalParams")

\* The thinking and token events sent so far, in order.
Forwarded ==
    LET sent == SelectSeq(trace, LAMBDA e : e.kind = "event" /\ e.type \in {"thinking", "token"})
    IN  [k \in 1..Len(sent) |-> [type |-> sent[k].type, payload |-> sent[k].payload]]
\* The events and the text the first n data lines of the provider stand
\* for.
RECURSIVE EventsOf(_, _)
EventsOf(deltas, n) ==
    IF n = 0 THEN << >>
    ELSE EventsOf(deltas, n - 1)
         \o (IF deltas[n].reasoning # ""
             THEN <<[type |-> "thinking", payload |-> deltas[n].reasoning]>> ELSE << >>)
         \o (IF deltas[n].content # EmptyText
             THEN <<[type |-> "token", payload |-> deltas[n].content]>> ELSE << >>)
RECURSIVE ContentOf(_, _)
ContentOf(deltas, n) ==
    IF n = 0 THEN EmptyText ELSE ContentOf(deltas, n - 1) \o deltas[n].content

\* C30: during a generation attempt every content delta is forwarded as one
\* token event before the next delta is read, so the token payloads are the
\* provider's non-empty content deltas in the same order; the answer the
\* attempt returns is their concatenation; reasoning deltas are forwarded
\* as thinking events and are not part of the answer.
C30_DeltasForwardedInOrder ==
    /\ pc = "gen_read" =>
          /\ Forwarded = EventsOf(returned, deltasRead)
          /\ fullAnswer = ContentOf(returned, deltasRead)
    /\ pc # "gen_read" =>
          /\ Forwarded = EventsOf(returned, Len(returned))
          /\ answer = ContentOf(returned, Len(returned))
          /\ attempts[Len(attempts)].content = answer

\* An attempt of three data lines, two with different contents and one with
\* reasoning only, has returned.
C30_Witness ==
    /\ pc = "persist"
    /\ Len(returned) = 3
    /\ Cardinality(EventIdx("token")) = 2
    /\ \E k \in 1..3 : returned[k] = [reasoning |-> "r", content |-> EmptyText]
    /\ Len(answer) = 2
    /\ answer[1] # answer[2]

\* C31: every citation snippet extractCitations produces has at most 200
\* characters, whatever the length of the source text.
C31_SnippetAtMost200 ==
    \A k \in 1..Len(citations) : Len(citations[k].snippet) <= SnippetLength

\* The chunk identifiers of a list of chunks or of sources, in order.
ChunkIdsOf(cs) == [k \in 1..Len(cs) |-> cs[k].chunk_id]
SourceIdsOf(srcs) == [k \in 1..Len(srcs) |-> srcs[k].id]

\* C32: when the chunk grader returns decision = proceed_filtered, the
\* sources given to the generator (and used for the citation indices) are
\* exactly cragResult.relevantChunks, never the unfiltered retrieved set,
\* also when relevantChunks is empty.
C32_FilteredSourcesOnly ==
    cragResult.decision = "proceed_filtered" =>
        /\ SourceIdsOf(sources) = ChunkIdsOf(cragResult.relevantChunks)
        /\ \A c \in CallIdx("streamChatCompletion") :
              SourceIdsOf(trace[c].payload.sources) =
                  ChunkIdsOf(cragResult.relevantChunks)

\* The calls that write to the store.
WriteOps == {"insert_conversation", "insert_message", "insert_audit"}
WriteIdx == {k \in Idx : trace[k].kind = "call" /\ trace[k].type \in WriteOps}

\* C33: apart from creating the conversation when none is supplied, a
\* request writes nothing to the store but its own user message and its own
\* assistant message, on every path.
C33_WritesOnlyOwnMessages ==
    /\ \A k \in WriteIdx :
          \/ trace[k].type = "insert_message"
          \/ trace[k].type = "insert_conversation" /\ body.conversation_id = Undefined
    /\ Cardinality(InsertIdx("user")) <= 1
    /\ Cardinality(InsertIdx("assistant")) <= 1
    /\ \A k \in InsertIdx("user") : trace[k].payload.content = body.query

\* --------------------------------------- two requests, one conversation
\* A second POST /ask/stream, on the same conversation when the request
\* names one, runs in its own invocation of the handler: its counters, its result map, its answer
\* buffer, its citations and its reply stream are locals of that invocation
\* (lines 346-379, 157, 232-233, 636-637).  What the two requests have in
\* common is the store; the second request reaches it with its user
\* message and its assistant message.
OtherQuery == <<"o">>
OtherAnswer == <<"o", "a">>
FromOther(row) == row.content \in {OtherQuery, OtherAnswer}
OtherSaved(role) ==
    \E k \in 1..Len(messages) : messages[k].role = role /\ FromOther(messages[k])

\* Lines 402-410, run by the second request.
OtherSaveUserMessage ==
    /\ ~OtherSaved("user")
    /\ messages' = InsertMessage(messages, "user", OtherQuery, TRUE)
    /\ UNCHANGED <<pc, config, trace, routing, retrieval, generation>>

\* Lines 456, 562, 601 and 698-710, run by the second request.
OtherSaveAssistantMessage ==
    /\ OtherSaved("user")
    /\ ~OtherSaved("assistant")
    /\ messages' = InsertMessage(messages, "assistant", OtherAnswer, TRUE)
    /\ UNCHANGED <<pc, config, trace, routing, retrieval, generation>>

ConcurrentNext == Next \/ OtherSaveUserMessage \/ OtherSaveAssistantMessage
ConcurrentSpec == Init /\ [][ConcurrentNext]_vars

\* The rows stored since the request began: the conversation's earlier
\* messages all carry the text of PriorMessages.
NewRows == SelectSeq(messages, LAMBDA row : row.content # <<"m">>)

\* The rows this request has stored, as its own insert calls report them.
OwnInserts ==
    SelectSeq(trace, LAMBDA e : e.kind = "call" /\ e.type = "insert_message"
                                /\ e.payload.ok)
StoredByRequest ==
    [k \in 1..Len(OwnInserts) |-> [role |-> OwnInserts[k].payload.role,
                                   content |-> OwnInserts[k].payload.content]]
OwnRows == SelectSeq(NewRows, LAMBDA row : ~FromOther(row))
OtherRows == SelectSeq(messages, FromOther)
Regenerations ==
    {k \in EventIdx("status") : trace[k].payload = "Answer quality low, regenerating..."}

C35_GeneratorHasSources ==
    \A c \in CallIdx("streamChatCompletion") :
        /\ Len(trace[c].payload.sources) >= 1
        /\ \A k \in 1..Len(trace[c].payload.sources) :
              \E j \in 1..Len(chunks) :
                  /\ trace[c].payload.sources[k].id = chunks[j].chunk_id
                  /\ trace[c].payload.sources[k].text = chunks[j].text

\* The generator is called with fewer sources than chunks were retrieved.
C35_Witness ==
    /\ CallIdx("streamChatCompletion") # {}
    /\ cragResult.decision = "proceed_filtered"
    /\ Len(sources) >= 1
    /\ Len(sources) < Len(chunks)

\* The token payloads sent after position k of the trace, concatenated.
TokensAfter(k) ==
    LET F[j \in k..Len(trace)] ==
            IF j = k THEN EmptyText
            ELSE IF trace[j].kind = "event" /\ trace[j].type = "token"
                 THEN F[j - 1] \o trace[j].payload
                 ELSE F[j - 1]
    IN  F[Len(trace)]
\* Where the last generation attempt starts: its request to the model.
LastAttemptIdx ==
    CHOOSE k \in CallIdx("chat_completions") :
        \A j \in CallIdx("chat_completions") : j <= k

\* C36: in every request that ends with done after generation, done.answer
\* is the concatenation of the token payloads of the last generation
\* attempt; tokens of an attempt that failed mid-stream or of an answer
\* superseded by the regeneration stay in the stream and are no part of it.
C36_DoneAnswerIsLastAttempt ==
    \A k \in EventIdx("done") :
        CallIdx("chat_completions") # {} =>
            trace[k].payload.answer = TokensAfter(LastAttemptIdx)

\* A request ends with done after tokens of an earlier attempt were sent:
\* the stream holds more token text than done.answer.
C36_Witness ==
    /\ EventIdx("done") # {}
    /\ CallIdx("chat_completions") # {}
    /\ \E t \in EventIdx("token") : t < LastAttemptIdx
    /\ \E t \in EventIdx("token") : t > LastAttemptIdx
    /\ \E a \in 1..Len(attempts) : attempts[a].outcome = "failed" /\ attempts[a].content # EmptyText
    /\ Len(TokensAfter(0)) > Len(answer)

\* The first generation succeeded and was graded shouldRetry, and the
\* regeneration has failed on its last attempt.
RegenerationFailed ==
    /\ retryCount = 1
    /\ RetryGraded
    /\ attempts # << >>
    /\ attempts[Len(attempts)].invocation = 1
    /\ attempts[Len(attempts)].outcome = "failed"
    /\ pc # "gen_fetch"

\* C37: if the first generation succeeds and is graded shouldRetry = true
\* and the regeneration then fails on all its attempts, the request ends
\* with error and no done, and the first answer, already streamed, is not
\* persisted as an assistant message.
C37_FailedRegenerationEndsInError ==
    RegenerationFailed =>
        /\ pc = "closed"
        /\ Cardinality(EventIdx("error")) = 1
        /\ EventIdx("done") = {}
        /\ InsertIdx("assistant") = {}
        /\ \A k \in 1..Len(NewRows) : NewRows[k].role # "assistant"
        /\ assistantMessage = Undefined

\* The regeneration failed after the first answer had been streamed.
C37_Witness ==
    /\ RegenerationFailed
    /\ answer # EmptyText
    /\ \E t \in EventIdx("token") : \E g \in CallIdx("gradeAnswer") : t < g
    /\ trace[Len(trace)].kind = "end"

\* ------------------------------- multiQuerySearch and the no-sources exit
\* Lines 159-192 and 559-574 with the search results drawn beforehand.
RetrievalNext == FusionSearch \/ NoSources
RetrievalSpec == FusionInit /\ [][RetrievalNext]_vars

AllSearchesFailed ==
    returned # << >> /\ \A k \in 1..Len(returned) : returned[k].error
AllSearchesEmpty ==
    returned # << >> /\ \A k \in 1..Len(returned) : ~returned[k].error /\ returned[k].data = << >>

\* The end of a request that found an empty collection: every variant was
\* searched, nothing was graded or generated, the fixed no-information
\* message was inserted, then done with that text and no citations, then
\* the end of the stream, and no error event.
EndsAsEmptyCollection ==
    /\ Cardinality(CallIdx("hybrid_search")) = Len(searchQueries)
    /\ chunks = << >>
    /\ EndsWithCannedDone(NoSourcesResponse)
    /\ Cardinality(InsertIdx("assistant")) = 1
    /\ \A k \in InsertIdx("assistant") :
          /\ trace[k].payload.content = NoSourcesResponse
          /\ \A d \in EventIdx("done") : k < d
          /\ \A h \in CallIdx("hybrid_search") : h < k
    /\ \A k \in Idx : trace[k].kind = "call" =>
          trace[k].type \in {"hybrid_search", "insert_message"}
    /\ trace[Len(trace)].kind = "end"

\* C38: if hybrid_search fails for every query variant, the request sends
\* no error event: it ends as it does for an empty collection, with the
\* fixed no-information assistant message persisted and done with empty
\* citations.
C38_FailedSearchesAsEmpty ==
    /\ AllSearchesFailed /\ pc # "search" => pc \in {"no_sources", "closed"}
    /\ (AllSearchesFailed \/ AllSearchesEmpty) /\ pc = "closed" => EndsAsEmptyCollection
    /\ AllSearchesFailed => EventIdx("error") = {}

\* Every variant's search failed and the request has ended.
C38_Witness ==
    /\ AllSearchesFailed
    /\ Len(returned) = MaxVariants
    /\ pc = "closed"
    /\ EventIdx("done") # {}

\* The batched embedding call of the request threw.
EmbeddingFailed == \E e \in CallIdx("embed") : trace[e].payload = "error"

\* C39: if the single batched embedding call throws, no hybrid_search call
\* is issued for any query variant and the request ends with error and no
\* done; the user message was inserted before and no assistant message is
\* inserted.  A failed embedding is not skipped the way a failed search is.
C39_EmbeddingFailureEndsRequest ==
    /\ Cardinality(CallIdx("embed")) <= 1
    /\ EmbeddingFailed =>
          /\ pc = "closed"
          /\ CallIdx("hybrid_search") = {}
          /\ Cardinality(EventIdx("error")) = 1
          /\ EventIdx("done") = {}
          /\ Cardinality(InsertIdx("user")) = 1
          /\ \A u \in InsertIdx("user") :
                /\ \A e \in CallIdx("embed") : u < e
                /\ trace[u].payload.ok =>
                      \E k \in 1..Len(NewRows) :
                          NewRows[k] = [role |-> "user", content |-> body.query]
          /\ InsertIdx("assistant") = {}
          /\ \A k \in 1..Len(NewRows) : NewRows[k].role # "assistant"
          /\ trace[Len(trace)].kind = "end"

\* The embedding call threw after the query had been expanded into more
\* than one variant, and the user message is in the store.
C39_Witness ==
    /\ EmbeddingFailed
    /\ Len(searchQueries) > 1
    /\ NewRows # << >>

\* The done event of the full-generation path: it carries message_id.
FullDoneIdx == {d \in EventIdx("done") : CallIdx("insert_audit") # {}}

\* C40: on every done path the done event is sent after the assistant
\* insert has completed, whatever its outcome: when the insert returns an
\* error result the request still ends with done and without error, on
\* the full-generation path with no message id, and no assistant message
\* is in the store.
C40_DoneWhateverTheInsertReturned ==
    /\ \A d \in EventIdx("done") :
          /\ Cardinality(InsertIdx("assistant")) = 1
          /\ \A k \in InsertIdx("assistant") :
                /\ k < d
                /\ trace[k].payload.content = trace[d].payload.answer
                /\ d \in FullDoneIdx =>
                      trace[d].payload.message_id =
                          IF trace[k].payload.ok THEN "m_new" ELSE Undefined
                /\ ~trace[k].payload.ok =>
                      \A m \in 1..Len(NewRows) : NewRows[m].role # "assistant"
    /\ \A k \in InsertIdx("assistant") :
          /\ EventIdx("error") = {}
          /\ pc = "closed" => \E d \in EventIdx("done") : k < d

\* A full-generation request ended with done although the assistant insert
\* returned an error: done carries no message id and the store holds no
\* assistant message.
C40_Witness ==
    /\ pc = "closed"
    /\ FullDoneIdx # {}
    /\ \E k \in InsertIdx("assistant") : ~trace[k].payload.ok
    /\ assistantMessage = Undefined
    /\ answer # EmptyText

====
